---------------------------- MODULE Spec2Model ----------------------------
(***************************************************************************)
(* A model of rust_irc: the line codec of message_parse.rs, the socket     *)
(* writers of irc_connection.rs, the command applier of message_impl.rs     *)
(* and the hub / session tasks of server.rs.                                *)
(*                                                                          *)
(* A Rust String is a sequence of one-character strings, so that splitting, *)
(* joining, prefix tests and line terminators are computed, not assumed.    *)
(* Option<T> is a sequence of length 0 (None) or 1 (Some).                  *)
(***************************************************************************)
EXTENDS Naturals, Integers, Sequences, FiniteSets, TLC

-----------------------------------------------------------------------------
(* String literals of the source, as character sequences.                  *)

S_DIE ==
    <<"D","I","E">>
S_JOIN ==
    <<"J","O","I","N">>
S_MOTD ==
    <<"M","O","T","D">>
S_NICK ==
    <<"N","I","C","K">>
S_PING ==
    <<"P","I","N","G">>
S_PONG ==
    <<"P","O","N","G">>
S_PRIVMSG ==
    <<"P","R","I","V","M","S","G">>
S_QUIT ==
    <<"Q","U","I","T">>
S_REHASH ==
    <<"R","E","H","A","S","H">>
S_USER ==
    <<"U","S","E","R">>
S_ERROR ==
    <<"E","R","R","O","R">>
T_Welcome ==
    <<"W","e","l","c","o","m","e"," ","t","o"," ","t","h","e"," ","I","n","t","e","r","n","e","t"," ","R","e","l","a","y"," ","N","e","t","w","o","r","k"," ">>
T_YourHost ==
    <<"Y","o","u","r"," ","h","o","s","t"," ","i","s"," ">>
T_Running ==
    <<","," ","r","u","n","n","i","n","g"," ","v","e","r","s","i","o","n"," ","r","u","s","t","_","i","r","c","-","0",".","0",".","0">>
T_Created ==
    <<"T","h","i","s"," ","s","e","r","v","e","r"," ","w","a","s"," ","c","r","e","a","t","e","d",".",".","."," ","p","r","o","b","a","b","l","y"," ","1","0"," ","s","e","c","o","n","d","s"," ","a","g","o"," ","w","h","o"," ","c","a","r","e","s">>
T_Version ==
    <<"r","u","s","t","_","i","r","c","-","0",".","0",".","0">>
T_ISupport ==
    <<"C","A","S","E","M","A","P","P","I","N","G","=","a","s","c","i","i"," ",":","a","r","e"," ","a","v","a","i","l","a","b","l","e"," ","o","n"," ","t","h","i","s"," ","s","e","r","v","e","r">>
T_UnknownCommand ==
    <<":"," ","U","n","k","n","o","w","n"," ","c","o","m","m","a","n","d">>
T_MotdStart ==
    <<" ","M","e","s","s","a","g","e"," ","o","f"," ","t","h","e"," ","d","a","y"," ","-"," ">>
T_MotdBody ==
    <<"-"," ","H","i"," ","f","r","o","m"," ","R","u","s","t","-","I","R","C","!">>
T_MotdEnd ==
    <<"E","n","d"," ","o","f"," ","/","M","O","T","D"," ","c","o","m","m","a","n","d">>
T_ShutdownQuit ==
    <<"Q","u","i","t",":"," ","S","e","r","v","e","r"," ","s","h","u","t","t","i","n","g"," ","d","o","w","n",".">>
T_ShutdownError ==
    <<"S","e","r","v","e","r"," ","s","h","u","t","t","i","n","g"," ","d","o","w","n",".">>
T_Goodbye ==
    <<"G","o","o","d","b","y","e","!">>
LowerAlphabet ==
    <<"a","b","c","d","e","f","g","h","i","j","k","l","m","n","o","p","q","r","s","t","u","v","w","x","y","z">>
UpperAlphabet ==
    <<"A","B","C","D","E","F","G","H","I","J","K","L","M","N","O","P","Q","R","S","T","U","V","W","X","Y","Z">>
DigitChars ==
    <<"0","1","2","3","4","5","6","7","8","9">>

\* The address the server socket is bound to (self.server_addr.ip()).
ServerIp ==
    <<"s","r","v">>

SP == <<" ">>
CRLF == <<"\r", "\n">>

-----------------------------------------------------------------------------
(* Option and Result.                                                      *)

None == <<>>
Some(x) == <<x>>
IsSome(o) == Len(o) = 1
IsNone(o) == Len(o) = 0
Unwrap(o) == o[1]

\* Result<T, io::Error>, with a third outcome for a panic of the callee.
Ok(v) == [tag |-> "Ok", val |-> v]
Err(kind) == [tag |-> "Err", val |-> kind]
Panicked(why) == [tag |-> "Panic", val |-> why]
IsOk(r) == r.tag = "Ok"
IsErr(r) == r.tag = "Err"
IsPanic(r) == r.tag = "Panic"

-----------------------------------------------------------------------------
(* str helpers of the Rust standard library, as the codec uses them.       *)

\* Fault: a split that drops a trailing empty piece.
SplitDroppingTrailingEmpty(s, sep) ==
    LET RECURSIVE go(_, _, _)
        go(i, cur, acc) ==
            IF i > Len(s) THEN Append(acc, cur)
            ELSE IF s[i] = sep THEN go(i + 1, <<>>, Append(acc, cur))
            ELSE go(i + 1, Append(cur, s[i]), acc)
        all == go(1, <<>>, <<>>)
    IN IF Len(all) > 1 /\ all[Len(all)] = <<>>
       THEN SubSeq(all, 1, Len(all) - 1)
       ELSE all

\* str::split(sep): always at least one piece, empty pieces kept.
Split(s, sep) ==
    LET RECURSIVE go(_, _, _)
        go(i, cur, acc) ==
            IF i > Len(s) THEN Append(acc, cur)
            ELSE IF s[i] = sep THEN go(i + 1, <<>>, Append(acc, cur))
            ELSE go(i + 1, Append(cur, s[i]), acc)
    IN go(1, <<>>, <<>>)

\* [String]::join(sep)
RECURSIVE Join(_, _)
Join(parts, sep) ==
    IF Len(parts) = 0 THEN <<>>
    ELSE IF Len(parts) = 1 THEN parts[1]
    ELSE parts[1] \o sep \o Join(Tail(parts), sep)

\* parts[from..] (1-based here; the caller has checked from <= Len + 1)
SliceFrom(parts, from) == SubSeq(parts, from, Len(parts))

StartsWith(s, ch) == Len(s) > 0 /\ s[1] = ch

Contains(s, ch) == \E i \in 1..Len(s) : s[i] = ch

\* Fault: letters are left in the case they came in.
UpperCharNothing(ch) == ch

\* char::to_uppercase over the ASCII letters
UpperChar(ch) ==
    IF \E i \in 1..Len(LowerAlphabet) : LowerAlphabet[i] = ch
    THEN UpperAlphabet[CHOOSE i \in 1..Len(LowerAlphabet) : LowerAlphabet[i] = ch]
    ELSE ch

\* str::to_uppercase
ToUppercase(s) == [i \in 1..Len(s) |-> UpperChar(s[i])]

IsWhitespace(ch) == ch \in {" ", "\t", "\n", "\r", "\f"}

\* str::trim: strips leading and trailing whitespace
Trim(s) ==
    LET keep == {i \in 1..Len(s) : ~IsWhitespace(s[i])}
    IN IF keep = {} THEN <<>>
       ELSE LET lo == CHOOSE i \in keep : \A j \in keep : i <= j
                hi == CHOOSE i \in keep : \A j \in keep : j <= i
            IN SubSeq(s, lo, hi)

\* format!("{:0>3}", n): decimal digits, left-padded with '0' to width 3
RECURSIVE Digits(_)
Digits(n) ==
    IF n < 10 THEN <<DigitChars[n + 1]>>
    ELSE Digits(n \div 10) \o <<DigitChars[(n % 10) + 1]>>

PadZero3(n) ==
    LET d == Digits(n)
    IN IF Len(d) >= 3 THEN d ELSE [i \in 1..(3 - Len(d)) |-> "0"] \o d

-----------------------------------------------------------------------------
(* message_parse.rs: the codec.                                            *)

\* A Command value: the enum variant and its payload fields in order.
\* Fault: what the parser does not implement is returned as MOTD with a
\* target.
CmdMotdTarget(verb, args) ==
    IF verb = "UNIMPLEMENTED"
    THEN [verb |-> "MOTD", args |-> <<Some(args[1])>>]
    ELSE [verb |-> verb, args |-> args]

Cmd(verb, args) == [verb |-> verb, args |-> args]

InvalidInput == Err("InvalidInput")

\* minlength_or_fail(x, len) is Ok
minlength_or_fail(x, len) == ~(Len(x) < len)

\* Fault: every leading ':' is stripped.
RECURSIVE strip_colon_every(_)
strip_colon_every(a) ==
    IF Len(a) = 0 THEN InvalidInput
    ELSE IF StartsWith(a, ":")
         THEN (IF Len(a) = 1 THEN InvalidInput ELSE strip_colon_every(Tail(a)))
    ELSE Ok(a)

strip_colon(a) ==
    IF Len(a) = 0 THEN InvalidInput
    ELSE LET b == IF StartsWith(a, ":") THEN Tail(a) ELSE a
         IN IF Len(b) = 0 THEN InvalidInput ELSE Ok(b)

\* impl FromStr for Command
CommandFromStr(s) ==
    LET parts == Split(s, " ")
        verb == ToUppercase(parts[1])
    IN CASE verb = S_DIE -> Ok(Cmd("DIE", <<>>))
         [] verb = S_JOIN ->
              IF ~minlength_or_fail(parts, 2) THEN InvalidInput
              ELSE LET channels == Split(parts[2], ",")
                       keys == IF Len(parts) = 3
                               THEN Some(Split(parts[3], ","))
                               ELSE None
                   IN Ok(Cmd("JOIN", <<channels, keys>>))
         [] verb = S_MOTD ->
              IF Len(parts) # 1 THEN Ok(Cmd("UNIMPLEMENTED", <<Trim(s)>>))
              ELSE Ok(Cmd("MOTD", <<None>>))
         [] verb = S_NICK ->
              IF ~minlength_or_fail(parts, 2) THEN InvalidInput
              ELSE Ok(Cmd("NICK", <<parts[2]>>))
         [] verb = S_PING ->
              IF ~minlength_or_fail(parts, 2) THEN InvalidInput
              ELSE Ok(Cmd("PING", <<parts[2]>>))
         [] verb = S_PONG ->
              IF ~minlength_or_fail(parts, 3) THEN InvalidInput
              ELSE Ok(Cmd("PONG", <<parts[2], parts[3]>>))
         [] verb = S_PRIVMSG ->
              IF ~minlength_or_fail(parts, 3) THEN InvalidInput
              ELSE LET message == strip_colon(Join(SliceFrom(parts, 3), SP))
                   IN IF ~IsOk(message) THEN message
                      ELSE Ok(Cmd("PRIVMSG", <<Split(parts[2], ","), message.val>>))
         [] verb = S_QUIT ->
              LET pieces == SliceFrom(parts, 2)
              IN IF Len(pieces) # 0 /\ Len(pieces[1]) # 0
                 THEN LET message == strip_colon(Join(pieces, SP))
                      IN IF ~IsOk(message) THEN message
                         ELSE Ok(Cmd("QUIT", <<Some(message.val)>>))
                 ELSE Ok(Cmd("QUIT", <<None>>))
         [] verb = S_REHASH -> Ok(Cmd("REHASH", <<>>))
         [] verb = S_USER ->
              IF ~minlength_or_fail(parts, 5) THEN InvalidInput
              ELSE LET realname == strip_colon(Join(SliceFrom(parts, 5), SP))
                   IN IF ~IsOk(realname) THEN realname
                      ELSE Ok(Cmd("USER", <<parts[2], parts[3], parts[4], realname.val>>))
         [] verb = <<>> -> InvalidInput
         [] OTHER -> Ok(Cmd("UNKNOWN", <<Trim(s)>>))

\* The value a todo!() arm of the serializer stands for: the call panics.
TodoPanic == <<"todo!()">>

\* impl ToString for Command
CommandToString(c) ==
    CASE c.verb = "DIE" -> S_DIE
      [] c.verb = "JOIN" ->
           IF IsSome(c.args[2])
           THEN S_JOIN \o SP \o Join(c.args[1], <<",">>) \o SP
                    \o Join(Unwrap(c.args[2]), <<",">>)
           ELSE S_JOIN \o SP \o Join(c.args[1], <<",">>)
      [] c.verb = "MOTD" -> IF IsSome(c.args[1]) THEN TodoPanic ELSE S_MOTD
      [] c.verb = "NICK" -> S_NICK \o SP \o c.args[1]
      [] c.verb = "PING" -> S_PING \o SP \o c.args[1]
      [] c.verb = "PONG" -> S_PONG \o SP \o c.args[1] \o SP \o c.args[2]
      [] c.verb = "PRIVMSG" ->
           S_PRIVMSG \o SP \o Join(c.args[1], <<",">>) \o <<" ", ":">> \o c.args[2]
      [] c.verb = "QUIT" ->
           IF IsSome(c.args[1]) THEN S_QUIT \o <<" ", ":">> \o Unwrap(c.args[1])
           ELSE S_QUIT
      [] c.verb = "REHASH" -> S_REHASH
      [] c.verb = "USER" ->
           IF Contains(c.args[4], " ")
           THEN S_USER \o SP \o c.args[1] \o SP \o c.args[2] \o SP \o c.args[3]
                    \o <<" ", ":">> \o c.args[4]
           ELSE S_USER \o SP \o c.args[1] \o SP \o c.args[2] \o SP \o c.args[3]
                    \o SP \o c.args[4]
      [] c.verb \in {"UNKNOWN", "UNIMPLEMENTED"} -> c.args[1]
      [] OTHER -> TodoPanic

\* struct Message
Msg(tags, source, command, side) ==
    [tags |-> tags, source |-> source, command |-> command, side |-> side]

\* impl FromStr for Message.  parts[1] of the source is indexed before the
\* length of parts is looked at: a line without a space panics there.
MessageFromStr(s) ==
    LET parts == Split(s, " ")
    IN IF Len(parts) < 2 THEN Panicked("index out of bounds")
       ELSE
       LET at0 == StartsWith(parts[1], "@")
           colon0 == StartsWith(parts[1], ":")
           colon1 == StartsWith(parts[2], ":")
           tags == CASE at0 /\ ~colon0 /\ colon1 -> Some(Split(Tail(parts[1]), ";"))
                     [] at0 /\ ~colon0 /\ ~colon1 -> Some(Split(parts[1], ";"))
                     [] OTHER -> None
           source == CASE at0 /\ ~colon0 /\ colon1 -> Some(Tail(parts[2]))
                       [] ~at0 /\ colon0 /\ ~colon1 -> Some(Tail(parts[1]))
                       [] OTHER -> None
           rest == CASE at0 /\ ~colon0 /\ colon1 -> Join(SliceFrom(parts, 3), SP)
                     [] at0 /\ ~colon0 /\ ~colon1 -> <<>>
                     [] ~at0 /\ colon0 /\ ~colon1 -> Join(SliceFrom(parts, 2), SP)
                     [] OTHER -> Join(parts, SP)
       IN IF at0 /\ colon0 THEN Panicked("unreachable!()")
          ELSE IF ~at0 /\ colon0 /\ colon1 THEN InvalidInput
          ELSE LET command == CommandFromStr(rest)
               IN IF ~IsOk(command) THEN command
                  ELSE Ok(Msg(tags, source, command.val, "Unknown"))

\* impl ToString for Message
MessageToString(m) ==
    CASE IsNone(m.tags) /\ IsNone(m.source) -> CommandToString(m.command)
      [] IsNone(m.tags) /\ IsSome(m.source) ->
           <<":">> \o Unwrap(m.source) \o SP \o CommandToString(m.command)
      [] IsSome(m.tags) /\ IsNone(m.source) ->
           <<"@">> \o Join(Unwrap(m.tags), <<";">>) \o SP \o CommandToString(m.command)
      [] OTHER ->
           <<"@">> \o Join(Unwrap(m.tags), <<";">>) \o <<" ", ":">> \o Unwrap(m.source)
               \o SP \o CommandToString(m.command)

-----------------------------------------------------------------------------
(* server.rs: ClientInfo.  irc_connection.rs: the socket writers.  Each    *)
(* writer yields the frames it hands to write_all + flush, in order.       *)

\* ClientInfo::default()
ClientInfoDefault ==
    [nickname |-> <<>>, username |-> <<>>, realname |-> <<>>, channels |-> <<>>]

\* ClientInfo::to_canonical
to_canonical(info, server) ==
    info.nickname \o <<"!">> \o info.username \o <<"@">> \o server

RPL_WELCOME == 1
RPL_YOURHOST == 2
RPL_CREATED == 3
RPL_MYINFO == 4
RPL_ISUPPORT == 5
RPL_MOTDSTART == 375
RPL_MOTD == 372
RPL_ENDOFMOTD == 376
ERR_UNKNOWN_COMMAND == 421

\* impl ToString for NumericReply
NumericToString(number) == PadZero3(number)

write_numeric(client, number, message) ==
    LET username == IF Len(client.username) = 0 THEN <<"*">> ELSE client.username
    IN << <<":">> \o ServerIp \o SP \o NumericToString(number) \o SP \o username
              \o SP \o message \o CRLF >>

write_numeric_trailer(client, number, message) ==
    write_numeric(client, number, <<":">> \o message)

write_quit(client, reason) ==
    << <<":">> \o client.username \o SP \o S_QUIT \o <<" ", ":">> \o reason \o CRLF >>

write_error(error) ==
    << S_ERROR \o <<" ", ":">> \o error >>

\* Fault: the burst stops after 004.
write_registration_without_isupport(client) ==
    write_numeric_trailer(client, RPL_WELCOME,
                          T_Welcome \o to_canonical(client, ServerIp))
    \o write_numeric_trailer(client, RPL_YOURHOST, T_YourHost \o ServerIp \o T_Running)
    \o write_numeric_trailer(client, RPL_CREATED, T_Created)
    \o write_numeric(client, RPL_MYINFO,
                     ServerIp \o SP \o T_Version \o SP \o SP \o SP \o SP)

write_registration(client) ==
    write_numeric_trailer(client, RPL_WELCOME,
                          T_Welcome \o to_canonical(client, ServerIp))
    \o write_numeric_trailer(client, RPL_YOURHOST, T_YourHost \o ServerIp \o T_Running)
    \o write_numeric_trailer(client, RPL_CREATED, T_Created)
    \o write_numeric(client, RPL_MYINFO,
                     ServerIp \o SP \o T_Version \o SP \o SP \o SP \o SP)
    \o write_numeric(client, RPL_ISUPPORT, T_ISupport)

write_unknown(client, command) ==
    write_numeric(client, ERR_UNKNOWN_COMMAND,
                  <<"*", " ">> \o command \o T_UnknownCommand)

\* The writer takes no token: the frame is "PONG <ip>".
write_pong(token) ==
    << S_PONG \o SP \o ServerIp >>

write_motd(client) ==
    write_numeric(client, RPL_MOTDSTART, <<"-", " ">> \o ServerIp \o T_MotdStart)
    \o write_numeric(client, RPL_MOTD, T_MotdBody)
    \o write_numeric(client, RPL_MOTD, T_MotdEnd)

\* write_raw is called by message_impl.rs and defined in no file of src/:
\* it emits the pre-serialized frame verbatim.
write_raw(frame) ==
    << frame >>

-----------------------------------------------------------------------------
(* message_impl.rs: Message::apply.  The result carries the return Code,   *)
(* the ClientInfo after the call and the frames written to the socket.     *)

Applied(code, info, frames) == [code |-> code, info |-> info, frames |-> frames]

\* Fault: a channel already in the list is not pushed again.
PushChannelsOnce(info, targets) ==
    [info EXCEPT !.channels =
        @ \o SelectSeq(targets, LAMBDA t : \A i \in 1..Len(info.channels) : info.channels[i] # t)]

\* for chan in targets { cc.info.channels.push(chan.clone()) }
PushChannels(info, targets) ==
    [info EXCEPT !.channels = @ \o targets]

\* Command::PRIVMSG arm
apply_privmsg(m, info) ==
    CASE m.side = "Client" -> Applied("Broadcast", info, <<>>)
      [] m.side = "Server" -> Applied("Fine", info, write_raw(MessageToString(m)))
      [] OTHER -> Applied("Fine", info, <<>>)

\* Fault: the JOIN arm does not look at the side and asks for a broadcast of
\* a message that came from the broadcast channel.
apply_join_any_side(m, info) ==
    Applied("Broadcast",
            IF m.side = "Client" THEN PushChannels(info, m.command.args[1]) ELSE info,
            write_raw(MessageToString(m)))

\* Command::JOIN arm
apply_join(m, info) ==
    CASE m.side = "Client" ->
           Applied("Broadcast", PushChannels(info, m.command.args[1]),
                   write_raw(MessageToString(m)))
      [] m.side = "Server" -> Applied("Fine", info, write_raw(MessageToString(m)))
      [] OTHER -> Applied("Fine", info, <<>>)

\* Fault: the PING arm asks for a broadcast after writing its reply.
apply_broadcasting_ping(m, info) ==
    LET c == m.command
    IN CASE c.verb = "NICK" ->
              Applied("Fine", [info EXCEPT !.nickname = c.args[1]], <<>>)
         [] c.verb = "USER" ->
              LET info2 == [info EXCEPT !.username = c.args[1], !.realname = c.args[4]]
              IN Applied("Fine", info2, write_registration(info2))
         [] c.verb = "PING" -> Applied("Broadcast", info, write_pong(c.args[1]))
         [] c.verb = "MOTD" -> Applied("Fine", info, write_motd(info))
         [] c.verb = "QUIT" -> Applied("Exit", info, write_error(T_Goodbye))
         [] c.verb = "PRIVMSG" -> apply_privmsg(m, info)
         [] c.verb = "JOIN" -> apply_join(m, info)
         [] c.verb \in {"UNKNOWN", "UNIMPLEMENTED"} ->
              Applied("Fine", info, write_unknown(info, c.args[1]))
         [] OTHER -> Applied("Fine", info, <<>>)

\* Message::apply
apply(m, info) ==
    LET c == m.command
    IN CASE c.verb = "NICK" ->
              Applied("Fine", [info EXCEPT !.nickname = c.args[1]], <<>>)
         [] c.verb = "USER" ->
              LET info2 == [info EXCEPT !.username = c.args[1], !.realname = c.args[4]]
              IN Applied("Fine", info2, write_registration(info2))
         [] c.verb = "PING" -> Applied("Fine", info, write_pong(c.args[1]))
         [] c.verb = "MOTD" -> Applied("Fine", info, write_motd(info))
         [] c.verb = "QUIT" -> Applied("Exit", info, write_error(T_Goodbye))
         [] c.verb = "PRIVMSG" -> apply_privmsg(m, info)
         [] c.verb = "JOIN" -> apply_join(m, info)
         [] c.verb \in {"UNKNOWN", "UNIMPLEMENTED"} ->
              Applied("Fine", info, write_unknown(info, c.args[1]))
         [] OTHER -> Applied("Fine", info, <<>>)

-----------------------------------------------------------------------------
(* Bounds of the model.                                                    *)

\* Sockets the listener accepts over one run.
MaxSessions == 2

\* Lines the clients send over one run, all sessions together.
MaxLines == 2

\* The same, for the runs with every client line and every failure.
MaxWideLines == 3

\* Sockets and lines of the runs in which few clients send lines of every
\* shape.
MaxSoloSessions == 1

MaxSoloLines == 2

\* Clients the standalone listener of main.rs accepts over one run.
MaxClients == 3

\* Capacity of both channels, and lines the clients send, in the runs in
\* which no channel ever fills.
RoomyCap == 2

\* Capacity of the hub's inbound queue, mpsc::channel(20), scaled down.
ServerCap == 1

\* Capacity of the broadcast channel, broadcast::channel(20), scaled down.
ClientCap == 1

-----------------------------------------------------------------------------
(* The lines a client sends, as IrcConnection::read_line returns them:     *)
(* with the terminator still attached.                                     *)

ChanC == <<"#", "c">>
KeyK == <<"k">>
TextM == <<"m">>
UserA == <<"a">>

JoinLine(c) == S_JOIN \o SP \o c \o CRLF
JoinKeyLine(c, k) == S_JOIN \o SP \o c \o SP \o k \o CRLF
PrivmsgLine(c, t) == S_PRIVMSG \o SP \o c \o <<" ", ":">> \o t \o CRLF
UserLine(u) == S_USER \o SP \o u \o <<" ", "0", " ", "*", " ", "r">> \o CRLF
QuitLine == S_QUIT \o <<" ", ":", "b", "y", "e">> \o CRLF
MotdLine == S_MOTD \o CRLF
\* PRIVMSG with a target and no text: fewer tokens than the verb's minimum.
ShortLine == S_PRIVMSG \o SP \o ChanC \o CRLF

\* Lines that parse and keep the session running.
RelayLines ==
    { JoinKeyLine(ChanC, KeyK), PrivmsgLine(ChanC, TextM), UserLine(UserA) }

\* RelayLines, the JOIN of one channel without keys, and lines that end the
\* session.
WideLines ==
    RelayLines \cup { JoinLine(ChanC), QuitLine, MotdLine, ShortLine }

\* Lines that carry a source prefix of the client's choosing.
SourceX == <<":", "x">>
PrefixedJoinLine == SourceX \o SP \o JoinKeyLine(ChanC, KeyK)
PrefixedPrivmsgLine == SourceX \o SP \o PrivmsgLine(ChanC, TextM)

\* QUIT without a quit message.
QuitAloneLine == S_QUIT \o CRLF

\* A verb no arm of Command::from_str names, alone and with an argument.
S_FLOOBER ==
    <<"F","L","O","O","B","E","R">>
FlooberLine == S_FLOOBER \o CRLF
FlooberArgLine == S_FLOOBER \o <<" ", "x">> \o CRLF

\* The last line before the peer closes, sent without a terminator: read_line
\* returns what it read.  With a source prefix it is the line that reaches
\* the MOTD arm of Command::from_str.
PrefixedMotdTail == SourceX \o SP \o S_MOTD

\* PING with a token.
TokenT == <<"t", "k">>
PingLine(t) == S_PING \o SP \o t \o CRLF

\* JOIN with a key, terminated by a bare LF, and JOIN without keys, cut
\* short by the peer closing: read_line returns both as they came.
JoinLfLine == S_JOIN \o SP \o ChanC \o SP \o KeyK \o <<"\n">>
JoinTail == S_JOIN \o SP \o ChanC

\* NICK, and MOTD with a target, which the parser does not implement.
NickLine == S_NICK \o <<" ", "n">> \o CRLF
MotdTargetLine == S_MOTD \o <<" ", "x">> \o CRLF

\* JOIN of two channels with one key.
ChanD == <<"#", "d">>
JoinTwoLine == S_JOIN \o SP \o ChanC \o <<",">> \o ChanD \o SP \o KeyK \o CRLF

\* Lines of every shape a session handles.
SoloLines ==
    { PrefixedJoinLine, PrefixedPrivmsgLine, UserLine(UserA), UserLine(<<>>),
      QuitLine, QuitAloneLine, FlooberLine, FlooberArgLine, PrefixedMotdTail,
      PingLine(TokenT), JoinLfLine, JoinTail, NickLine, MotdTargetLine }

\* Lines that change what a session has joined or who it is.
JoinLines ==
    { JoinTwoLine, JoinKeyLine(ChanC, KeyK), JoinTail, PrivmsgLine(ChanC, TextM),
      UserLine(UserA) }

-----------------------------------------------------------------------------
(* server.rs: the state of run(), Server and every ClientConnection.       *)

VARIABLES
    hub_state,        \* run(): "Running" (in its select), "Draining" (awaiting
                      \* shutdown_complete_rx.recv()), "Stopped" (returned)
    notify_shutdown,  \* the notify_shutdown sender is alive
    server_q,         \* messages in the server_tx / server_rx queue
    client_tx,        \* the broadcast channel: the values it retains, oldest first
    nsessions,        \* sockets accepted so far; sessions are 1..nsessions
    cc,               \* the ClientConnection of every session
    nlines,           \* lines read so far
    capacity,         \* capacities the two channels were created with
    last              \* history: what the latest step read and wrote

\* main.rs: the state of the standalone server.
VARIABLES
    killers,          \* Vec<Sender<()>>: the client each sender belongs to
    handlers,         \* every handle_client task
    ctrl_c,           \* the task that waits for the interrupt
    process           \* "Up", "Exited" (exit(0)), "Aborted" (main panicked)

server_vars ==
    <<hub_state, notify_shutdown, server_q, client_tx, nsessions, cc, nlines,
      capacity, last>>

main_vars == <<killers, handlers, ctrl_c, process>>

vars ==
    <<hub_state, notify_shutdown, server_q, client_tx, nsessions, cc, nlines,
      capacity, last, killers, handlers, ctrl_c, process>>

\* Clients of the standalone server.
Clients == 1..MaxClients

\* A handle_client task.  pc is "None" before the accept, "Select" while the
\* task is in its loop (its watch receiver rx alive) and "Done" once it has
\* returned (rx dropped).  changed: a value was sent on the watch channel and
\* rx.changed() has not yet resolved.  wrote is history: the frames the task
\* wrote when rx.changed() resolved.
NoHandler ==
    [pc |-> "None", username |-> <<>>, changed |-> FALSE, wrote |-> <<>>]
NewHandler ==
    [pc |-> "Select", username |-> <<>>, changed |-> FALSE, wrote |-> <<>>]

\* main() before the first accept.  next is the position of the interrupt
\* task in its loop over killers, total the length of the list when the
\* task locked it.
MainIdle ==
    /\ killers = <<>>
    /\ handlers = [c \in Clients |-> NoHandler]
    /\ ctrl_c = [pc |-> "Waiting", next |-> 1, total |-> 0]
    /\ process = "Up"

Sessions == 1..MaxSessions

\* History record of one step.
Ev(actor, op, input, result, frames) ==
    [actor |-> actor, op |-> op, input |-> input, result |-> result, frames |-> frames]

\* A Message in flight, with history fields the code does not carry: the
\* session that enqueued it, the sessions that had by then applied the
\* client line 'JOIN c' for the channel c its client line names, and the
\* number of the client line it was parsed from, counting the lines read.
InFlight(m, origin, joined) ==
    [message |-> m, origin |-> origin, joined |-> joined, seq |-> nlines + 1]

\* enum ServerClientBroadcast
PrivMessage(channels, item) ==
    [kind |-> "PrivMessage", channels |-> channels, item |-> item]
JoinEnv(item) ==
    [kind |-> "Join", channels |-> <<>>, item |-> item]

\* A slot of cc before the socket is accepted.  client_rx is the number of
\* values sent on client_tx that the receiver has not read yet (the
\* channel's tail position minus the receiver's next position).  joinlines
\* is history: the channels whose 'JOIN c' line the session has applied.
NoConnection ==
    [pc |-> "Idle", info |-> ClientInfoDefault, client_rx |-> 0, pending |-> None,
     _shutdown_complete |-> FALSE, joinlines |-> {}]

\* Fault: accept_client builds the connection without a clone of
\* shutdown_complete_tx.
ConnectionWithoutToken ==
    [pc |-> "Select", info |-> ClientInfoDefault, client_rx |-> 0,
     pending |-> None, _shutdown_complete |-> FALSE, joinlines |-> {}]

\* Fault: the receiver starts at the oldest value the channel retains.
ConnectionReplaying ==
    [pc |-> "Select", info |-> ClientInfoDefault, client_rx |-> Len(client_tx),
     pending |-> None, _shutdown_complete |-> TRUE, joinlines |-> {}]

\* Server::accept_client: the ClientConnection it builds.  client_rx is
\* client_tx.subscribe(): it starts at the channel's tail, nothing unread.
NewClientConnection ==
    [pc |-> "Select", info |-> ClientInfoDefault, client_rx |-> 0,
     pending |-> None, _shutdown_complete |-> TRUE, joinlines |-> {}]

\* The task of a ClientConnection has ended: the connection is dropped, and
\* with it the broadcast receiver and the shutdown-complete sender.
Dropped(c) ==
    [NoConnection EXCEPT !.pc = "Done"]

Alive(c) == c.pc \in {"Select", "Send"}

\* Receivers subscribed to client_tx, given the connections.
Receivers(conns) == {s \in Sessions : Alive(conns[s])}

\* broadcast::Receiver::recv reports Lagged when its position has been
\* overwritten: more than the capacity was sent since.
Lagged(unread) == unread > capacity.client

\* Fault: the channel keeps its oldest values and drops the newest.
RetainOldest(buf, conns) ==
    LET need == {conns[s].client_rx : s \in {r \in Receivers(conns) : ~Lagged(conns[r].client_rx)}}
        n == IF need = {} THEN 0 ELSE CHOOSE x \in need : \A y \in need : y <= x
    IN SubSeq(buf, 1, n)

\* The broadcast channel drops a value once every receiver that can still
\* read it has read it or is gone: it retains the newest n values, n the
\* largest unread count among the receivers that have not lagged.
Retain(buf, conns) ==
    LET need == {conns[s].client_rx : s \in {r \in Receivers(conns) : ~Lagged(conns[r].client_rx)}}
        n == IF need = {} THEN 0 ELSE CHOOSE x \in need : \A y \in need : y <= x
    IN SubSeq(buf, Len(buf) - n + 1, Len(buf))

Init ==
    /\ hub_state = "Running"
    /\ notify_shutdown = TRUE
    /\ server_q = <<>>
    /\ client_tx = <<>>
    /\ nsessions = 0
    /\ cc = [s \in Sessions |-> NoConnection]
    /\ nlines = 0
    /\ capacity = [server |-> ServerCap, client |-> ClientCap]
    /\ last = Ev(0, "init", <<>>, "-", <<>>)
    /\ MainIdle

-----------------------------------------------------------------------------
(* The hub: run() and Server::run.                                         *)

\* Fault: run() leaves its select and keeps notify_shutdown.
LeaveSelectKeepingNotify ==
    /\ hub_state' = "Draining"
    /\ notify_shutdown' = notify_shutdown

\* run() leaves its select: notify_shutdown and the hub's own
\* shutdown_complete_tx are dropped before the next await.
LeaveSelect ==
    /\ hub_state' = "Draining"
    /\ notify_shutdown' = FALSE

\* socket = self.listener.accept() => self.accept_client(socket?.0)
HubAccept ==
    /\ hub_state = "Running"
    /\ nsessions < MaxSessions
    /\ nsessions' = nsessions + 1
    /\ cc' = [cc EXCEPT ![nsessions + 1] = NewClientConnection]
    /\ last' = Ev(0, "accept", <<>>, "Ok", <<>>)
    /\ UNCHANGED main_vars
    /\ UNCHANGED <<hub_state, notify_shutdown, server_q, client_tx, nlines, capacity>>

\* self.listener.accept() fails: socket? returns the error from Server::run.
HubAcceptError ==
    /\ hub_state = "Running"
    /\ LeaveSelect
    /\ last' = Ev(0, "accept", <<>>, "Err", <<>>)
    /\ UNCHANGED main_vars
    /\ UNCHANGED <<server_q, client_tx, nsessions, cc, nlines, capacity>>

\* broadcast::Sender::send: one more unread value for every receiver.  A
\* receiver that is more than the capacity behind has lagged, by how much
\* makes no difference.
Behind(conns) ==
    [s \in Sessions |->
        IF Alive(conns[s]) /\ ~Lagged(conns[s].client_rx)
        THEN [conns[s] EXCEPT !.client_rx = @ + 1]
        ELSE conns[s]]

\* Fault: the PrivMessage envelope is built without the targets.
send_broadcast_without_targets(item) ==
    CASE item.message.command.verb = "PRIVMSG" -> Some(PrivMessage(<<>>, item))
      [] item.message.command.verb = "JOIN" -> Some(JoinEnv(item))
      [] OTHER -> None

\* Server::send_broadcast: the envelope to publish, if any.
send_broadcast(item) ==
    CASE item.message.command.verb = "PRIVMSG" ->
           Some(PrivMessage(item.message.command.args[1], item))
      [] item.message.command.verb = "JOIN" -> Some(JoinEnv(item))
      [] OTHER -> None

\* broadcast::Sender::send fails when no receiver is subscribed.
SendFails(env, receivers) ==
    IsSome(env) /\ receivers = {}

\* Fault: Server does not keep the server_tx it was built with.
server_tx_clones == Cardinality({s \in Sessions : Alive(cc[s])})

\* The senders of the inbound queue: the server_tx field of Server, which
\* lives until run() returns, and the clone every living session holds.
server_tx_senders ==
    (IF hub_state = "Stopped" THEN 0 ELSE 1)
        + Cardinality({s \in Sessions : Alive(cc[s])})

\* self.server_rx.recv() returns None: no sender is left and the queue is
\* empty.
server_rx_closed == server_tx_senders = 0 /\ server_q = <<>>

\* broadcast = self.server_rx.recv() => self.send_broadcast(x).await?
HubRoute ==
    /\ hub_state = "Running"
    /\ Len(server_q) > 0
    /\ LET item == Head(server_q)
           env == send_broadcast(item)
       IN /\ server_q' = Tail(server_q)
          /\ IF SendFails(env, Receivers(cc))
             THEN /\ LeaveSelect
                  /\ last' = Ev(0, "route", env, "Err", <<>>)
                  /\ UNCHANGED <<client_tx, cc>>
             ELSE /\ cc' = IF IsSome(env) THEN Behind(cc) ELSE cc
                  /\ client_tx' = IF IsSome(env)
                                  THEN Retain(Append(client_tx, Unwrap(env)), cc')
                                  ELSE client_tx
                  /\ last' = Ev(0, "route", env, "Ok", <<>>)
                  /\ UNCHANGED <<hub_state, notify_shutdown>>
    /\ UNCHANGED main_vars
    /\ UNCHANGED <<nsessions, nlines, capacity>>

\* _ = shutdown => ...: the shutdown future resolves.
HubShutdown ==
    /\ hub_state = "Running"
    /\ LeaveSelect
    /\ last' = Ev(0, "shutdown", <<>>, "Ok", <<>>)
    /\ UNCHANGED main_vars
    /\ UNCHANGED <<server_q, client_tx, nsessions, cc, nlines, capacity>>

\* shutdown_complete_rx.recv() returns None: every sender clone is dropped.
ShutdownCompleteClosed ==
    \A s \in Sessions : ~cc[s]._shutdown_complete

\* let _ = shutdown_complete_rx.recv().await; run() returns.
HubReturn ==
    /\ hub_state = "Draining"
    /\ ShutdownCompleteClosed
    /\ hub_state' = "Stopped"
    /\ last' = Ev(0, "return", <<>>, "Ok", <<>>)
    /\ UNCHANGED main_vars
    /\ UNCHANGED <<notify_shutdown, server_q, client_tx, nsessions, cc, nlines, capacity>>

-----------------------------------------------------------------------------
(* The session: ClientConnection::run.                                     *)

ChannelNames == {ChanC}
Texts == {TextM}

\* History: the sessions that have applied the client line 'JOIN c' for the
\* channel c that the client line `line` ('PRIVMSG c :text') names.
JoinedBefore(line) ==
    {b \in Sessions : \E c \in cc[b].joinlines : \E t \in Texts : line = PrivmsgLine(c, t)}

\* History: the channels c whose client line 'JOIN c' the session has applied.
NoteJoinLine(c, line) ==
    [c EXCEPT !.joinlines = @ \cup {ch \in ChannelNames : line = JoinLine(ch)}]

\* Fault: the farewell writes the ERROR frame first.
quit_client_error_first(info) ==
    write_error(T_ShutdownError) \o write_quit(info, T_ShutdownQuit)

\* self.connection.quit_client(): write_quit, then write_error.
quit_client(info) ==
    write_quit(info, T_ShutdownQuit) \o write_error(T_ShutdownError)

\* Fault: the source the client's line carried is kept.
RewrittenKeepingSource(m, info) ==
    [m EXCEPT !.side = "Server"]

\* command.source = Some(self.info.username.clone()); command.side = Side::Server
Rewritten(m, info) ==
    [m EXCEPT !.source = Some(info.username), !.side = "Server"]

\* match command.apply(self).await { Fine | Broadcast | Exit }: the
\* connection after the match.  On Broadcast the task awaits
\* self.server_tx.send(command): with room in the queue the send completes at
\* once, otherwise the task is suspended holding the rewritten command.
Dispatch(c, s, m, a, joined, room) ==
    CASE a.code = "Broadcast" ->
           IF room THEN [c EXCEPT !.info = a.info]
           ELSE [c EXCEPT !.info = a.info, !.pc = "Send",
                          !.pending = Some(InFlight(Rewritten(m, a.info), s, joined))]
      [] a.code = "Exit" -> Dropped([c EXCEPT !.info = a.info])
      [] OTHER -> [c EXCEPT !.info = a.info]

\* The queue after the match: on Broadcast with room, the rewritten command
\* is enqueued.
Enqueued(q, s, m, a, joined, room) ==
    IF a.code = "Broadcast" /\ room
    THEN Append(q, InFlight(Rewritten(m, a.info), s, joined))
    ELSE q

\* Fault: the send never finds the queue full.
HasRoomAlways == TRUE

\* mpsc::Sender::send completes at once iff the queue is below its capacity.
HasRoom == Len(server_q) < capacity.server

\* res = self.connection.read_line() => ... with a line read
SessionLine(s, line, budget) ==
    /\ cc[s].pc = "Select"
    /\ nlines < budget
    /\ nlines' = nlines + 1
    /\ LET r == MessageFromStr(line)
       IN IF ~IsOk(r)
          THEN /\ cc' = [cc EXCEPT ![s] = Dropped(@)]
               /\ server_q' = server_q
               /\ last' = Ev(s, "line", line, r.tag, <<>>)
          ELSE LET m == [r.val EXCEPT !.side = "Client"]
                   a == apply(m, cc[s].info)
               IN /\ cc' = [cc EXCEPT ![s] =
                               Dispatch(NoteJoinLine(@, line), s, m, a,
                                        JoinedBefore(line), HasRoom)]
                  /\ server_q' = Enqueued(server_q, s, m, a, JoinedBefore(line), HasRoom)
                  /\ last' = Ev(s, "line", line, a.code, a.frames)
    /\ client_tx' = Retain(client_tx, cc')
    /\ UNCHANGED main_vars
    /\ UNCHANGED <<hub_state, notify_shutdown, nsessions, capacity>>

\* res.is_none(): the peer closed the socket.
SessionEof(s) ==
    /\ cc[s].pc = "Select"
    /\ cc' = [cc EXCEPT ![s] = Dropped(@)]
    /\ client_tx' = Retain(client_tx, cc')
    /\ last' = Ev(s, "eof", <<>>, "Ok", quit_client(cc[s].info))
    /\ UNCHANGED main_vars
    /\ UNCHANGED <<hub_state, notify_shutdown, server_q, nsessions, nlines, capacity>>

\* let res = res?: the socket read fails.
SessionIoError(s) ==
    /\ cc[s].pc = "Select"
    /\ cc' = [cc EXCEPT ![s] = Dropped(@)]
    /\ client_tx' = Retain(client_tx, cc')
    /\ last' = Ev(s, "ioerr", <<>>, "Err", <<>>)
    /\ UNCHANGED main_vars
    /\ UNCHANGED <<hub_state, notify_shutdown, server_q, nsessions, nlines, capacity>>

\* Fault: the receiver takes the newest value of the channel.
NextUnreadNewest(buf, unread) == buf[Len(buf)]

\* The oldest value the receiver has not read.
NextUnread(buf, unread) == buf[Len(buf) - unread + 1]

\* any(|a| channels.contains(a))
Intersects(mine, channels) ==
    \E i \in 1..Len(mine) : \E j \in 1..Len(channels) : mine[i] = channels[j]

\* Fault: the Join arm applies the test of the PrivMessage arm, against the
\* channels the JOIN names.
FilterJoinLikePrivmsg(env, info) ==
    IF IsSome(env.item.message.source)
       /\ Unwrap(env.item.message.source) # info.username
       /\ Intersects(info.channels, env.item.message.command.args[1])
    THEN Some(env.item.message)
    ELSE None

\* match command { PrivMessage {..} => ..., Join {..} => ... }
Filter(env, info) ==
    IF env.kind = "PrivMessage"
    THEN IF IsSome(env.item.message.source)
         THEN IF Unwrap(env.item.message.source) # info.username
                 /\ Intersects(info.channels, env.channels)
              THEN Some(env.item.message)
              ELSE None
         ELSE None
    ELSE Some(env.item.message)

\* res = self.client_rx.recv() => ...
SessionRecv(s) ==
    /\ cc[s].pc = "Select"
    /\ cc[s].client_rx > 0
    /\ IF Lagged(cc[s].client_rx)
       THEN /\ cc' = [cc EXCEPT ![s] = Dropped(@)]
            /\ server_q' = server_q
            /\ last' = Ev(s, "recv", <<>>, "Lagged", <<>>)
       ELSE LET env == NextUnread(client_tx, cc[s].client_rx)
                maybe == Filter(env, cc[s].info)
                c1 == [cc[s] EXCEPT !.client_rx = @ - 1]
            IN IF IsNone(maybe)
               THEN /\ cc' = [cc EXCEPT ![s] = c1]
                    /\ server_q' = server_q
                    /\ last' = Ev(s, "recv", env, "None", <<>>)
               ELSE LET m == Unwrap(maybe)
                        a == apply(m, c1.info)
                    IN /\ cc' = [cc EXCEPT ![s] = Dispatch(c1, s, m, a, {}, HasRoom)]
                       /\ server_q' = Enqueued(server_q, s, m, a, {}, HasRoom)
                       /\ last' = Ev(s, "recv", env, a.code, a.frames)
    /\ client_tx' = Retain(client_tx, cc')
    /\ UNCHANGED main_vars
    /\ UNCHANGED <<hub_state, notify_shutdown, nsessions, nlines, capacity>>

\* Shutdown::recv resolves once the notify_shutdown sender is gone.  The
\* Shutdown helper is in no file of src/.
ShutdownSignalled == ~notify_shutdown

\* _ = self.shutdown.recv() => quit_client, return
SessionShutdown(s) ==
    /\ cc[s].pc = "Select"
    /\ ShutdownSignalled
    /\ cc' = [cc EXCEPT ![s] = Dropped(@)]
    /\ client_tx' = Retain(client_tx, cc')
    /\ last' = Ev(s, "signal", <<>>, "Ok", quit_client(cc[s].info))
    /\ UNCHANGED main_vars
    /\ UNCHANGED <<hub_state, notify_shutdown, server_q, nsessions, nlines, capacity>>

\* self.quit_client().await? with a socket write that fails, on peer EOF or
\* on the shutdown signal: write_quit fails (nothing written), or write_error
\* fails (the QUIT frame written).  The error returns from run(), the task
\* logs it and ends.
SessionFarewellError(s) ==
    /\ cc[s].pc = "Select"
    /\ \E op \in {"eof"} \cup (IF ShutdownSignalled THEN {"signal"} ELSE {}) :
          \E written \in 0..1 :
              last' = Ev(s, op, <<>>, "Err",
                         SubSeq(quit_client(cc[s].info), 1, written))
    /\ cc' = [cc EXCEPT ![s] = Dropped(@)]
    /\ client_tx' = Retain(client_tx, cc')
    /\ UNCHANGED main_vars
    /\ UNCHANGED <<hub_state, notify_shutdown, server_q, nsessions, nlines, capacity>>

\* self.server_tx.send(command).await completes once the queue has room.
SessionSend(s) ==
    /\ cc[s].pc = "Send"
    /\ HasRoom
    /\ server_q' = Append(server_q, Unwrap(cc[s].pending))
    /\ cc' = [cc EXCEPT ![s] = [@ EXCEPT !.pc = "Select", !.pending = None]]
    /\ last' = Ev(s, "send", cc[s].pending, "Ok", <<>>)
    /\ UNCHANGED main_vars
    /\ UNCHANGED <<hub_state, notify_shutdown, client_tx, nsessions, nlines, capacity>>

\* Clients that send lines that parse and do not end the session.
Next ==
    \/ HubAccept
    \/ HubRoute
    \/ HubShutdown
    \/ HubReturn
    \/ \E s \in Sessions : \E line \in RelayLines : SessionLine(s, line, MaxLines)
    \/ \E s \in Sessions : SessionEof(s)
    \/ \E s \in Sessions : SessionRecv(s)
    \/ \E s \in Sessions : SessionShutdown(s)
    \/ \E s \in Sessions : SessionSend(s)

Spec == Init /\ [][Next]_vars

\* The tokio runtime polls every task that can make progress: a step of the
\* hub or of a session that stays possible is eventually taken.  Clients
\* are not obliged to send lines or to close.
Fairness ==
    /\ WF_vars(HubRoute)
    /\ WF_vars(HubReturn)
    /\ \A s \in Sessions : WF_vars(SessionRecv(s))
    /\ \A s \in Sessions : WF_vars(SessionShutdown(s))
    /\ \A s \in Sessions : WF_vars(SessionSend(s))

SpecFair == Init /\ [][Next]_vars /\ Fairness

\* Every client line, every failure of the listener and of the sockets.
NextWide ==
    \/ HubAccept
    \/ HubAcceptError
    \/ HubRoute
    \/ HubShutdown
    \/ HubReturn
    \/ \E s \in Sessions : \E line \in WideLines : SessionLine(s, line, MaxWideLines)
    \/ \E s \in Sessions : SessionEof(s)
    \/ \E s \in Sessions : SessionIoError(s)
    \/ \E s \in Sessions : SessionFarewellError(s)
    \/ \E s \in Sessions : SessionRecv(s)
    \/ \E s \in Sessions : SessionShutdown(s)
    \/ \E s \in Sessions : SessionSend(s)

SpecWide == Init /\ [][NextWide]_vars

\* Few clients, lines of every shape.
NextSolo ==
    \/ nsessions < MaxSoloSessions /\ HubAccept
    \/ HubRoute
    \/ HubShutdown
    \/ HubReturn
    \/ \E s \in Sessions : \E line \in SoloLines : SessionLine(s, line, MaxSoloLines)
    \/ \E s \in Sessions : SessionEof(s)
    \/ \E s \in Sessions : SessionFarewellError(s)
    \/ \E s \in Sessions : SessionRecv(s)
    \/ \E s \in Sessions : SessionShutdown(s)
    \/ \E s \in Sessions : SessionSend(s)

SpecSolo == Init /\ [][NextSolo]_vars

\* One session and the lines that touch its channels list.
NextJoin ==
    \/ nsessions < MaxSoloSessions /\ HubAccept
    \/ HubRoute
    \/ HubShutdown
    \/ HubReturn
    \/ \E s \in Sessions : \E line \in JoinLines : SessionLine(s, line, MaxSoloLines)
    \/ \E s \in Sessions : SessionEof(s)
    \/ \E s \in Sessions : SessionRecv(s)
    \/ \E s \in Sessions : SessionShutdown(s)
    \/ \E s \in Sessions : SessionSend(s)

SpecJoin == Init /\ [][NextJoin]_vars

\* Channels with room for every line the clients send: no send is ever
\* suspended and no receiver ever lags.
InitRoomy ==
    /\ hub_state = "Running"
    /\ notify_shutdown = TRUE
    /\ server_q = <<>>
    /\ client_tx = <<>>
    /\ nsessions = 0
    /\ cc = [s \in Sessions |-> NoConnection]
    /\ nlines = 0
    /\ capacity = [server |-> RoomyCap, client |-> RoomyCap]
    /\ last = Ev(0, "init", <<>>, "-", <<>>)
    /\ MainIdle

NextRoomy ==
    \/ HubAccept
    \/ HubRoute
    \/ HubShutdown
    \/ HubReturn
    \/ \E s \in Sessions : \E line \in RelayLines : SessionLine(s, line, RoomyCap)
    \/ \E s \in Sessions : SessionEof(s)
    \/ \E s \in Sessions : SessionRecv(s)
    \/ \E s \in Sessions : SessionShutdown(s)

SpecRoomy == InitRoomy /\ [][NextRoomy]_vars

\* The codec alone: a line is drawn, Message::from_str parses it.
MaxTokens == 2

Tokens ==
    { <<>>, <<"@", "t">>, SourceX, <<":", "m">>, ChanC,
      S_JOIN, S_PRIVMSG, S_QUIT, S_FLOOBER }

\* Every line of up to MaxTokens tokens separated by single spaces, bare and
\* with the terminator read_line leaves on it.
TokenLines ==
    LET bare == { Join(ts, SP) : ts \in UNION { [1..n -> Tokens] : n \in 0..MaxTokens } }
    IN bare \cup { l \o CRLF : l \in bare }

\* Field values: words, channel lists, key lists, trailers.
Words == { UserA, <<"b">> }
ChanLists == { ChanC, ChanC \o <<",">> \o <<"#", "d">> }
KeyLists == { KeyK, KeyK \o <<",">> \o <<"j">> }
Trailers == { TextM, TextM \o SP \o <<"n">> }
\* Texts a trailer can hold: a word, words with spaces, a text that begins
\* with ':'.
TrailerValues == Words \cup Trailers \cup { <<":", "m">> }

\* Lines of the verbs Command::from_str has an arm for, in the shapes of the
\* grammar: the last parameter with or without ':' when it is one word,
\* with ':' when it has spaces.  No terminator.
WellFormedLines ==
    { S_DIE, S_REHASH, S_MOTD, S_QUIT }
    \cup { S_QUIT \o <<" ", ":">> \o t : t \in Trailers }
    \cup { S_QUIT \o SP \o w : w \in Words }
    \cup { S_NICK \o SP \o w : w \in Words }
    \cup { S_PING \o SP \o w : w \in Words }
    \cup { S_PONG \o SP \o ServerIp \o SP \o w : w \in Words }
    \cup { S_JOIN \o SP \o c : c \in ChanLists }
    \cup { S_JOIN \o SP \o c \o SP \o k : c \in ChanLists, k \in KeyLists }
    \cup { S_PRIVMSG \o SP \o c \o <<" ", ":">> \o t : c \in ChanLists, t \in Trailers }
    \cup { S_PRIVMSG \o SP \o c \o SP \o w : c \in ChanLists, w \in Words }
    \cup { S_USER \o SP \o w \o <<" ", "0", " ", "*", " ", ":">> \o t :
               w \in Words, t \in Trailers }
    \cup { S_USER \o SP \o w \o <<" ", "0", " ", "*", " ">> \o v :
               w \in Words, v \in Words }

\* JOIN with a keys token that is the empty string.
EmptyKeyJoinLines == { S_JOIN \o SP \o c \o SP : c \in ChanLists }

\* What comes before the trailer of PRIVMSG, QUIT and USER.
PrivmsgHead == S_PRIVMSG \o SP \o ChanC
UserHead(w) == S_USER \o SP \o w \o <<" ", "0", " ", "*">>
TrailerHeads == { PrivmsgHead, S_QUIT } \cup { UserHead(w) : w \in Words }

\* A head followed by a trailer: the text as it is, the text after ':',
\* and ':' alone.
TrailerLines ==
    { h \o SP \o t : h \in TrailerHeads, t \in TrailerValues }
    \cup { h \o <<" ", ":">> \o t : h \in TrailerHeads, t \in TrailerValues }
    \cup { h \o <<" ", ":">> : h \in TrailerHeads }

\* The verbs Command::from_str has an arm for, and the fewest tokens each
\* arm accepts.
Verbs ==
    { S_DIE, S_JOIN, S_MOTD, S_NICK, S_PING, S_PONG, S_PRIVMSG, S_QUIT,
      S_REHASH, S_USER }
MinTokens(verb) ==
    CASE verb \in {S_JOIN, S_NICK, S_PING} -> 2
      [] verb \in {S_PONG, S_PRIVMSG} -> 3
      [] verb = S_USER -> 5
      [] OTHER -> 1

\* Verbs in lower case.
LowerJoin == <<"j","o","i","n">>
LowerFloober == <<"f","l","o","o","b","e","r">>

\* Every verb and two unknown ones, alone, after a space, and followed by
\* one to three words.
VerbLines ==
    LET verbs == Verbs \cup { S_FLOOBER, LowerJoin, LowerFloober }
    IN verbs
       \cup { SP \o v : v \in verbs }
       \cup { v \o SP \o ChanC : v \in verbs }
       \cup { v \o SP \o ChanC \o SP \o UserA : v \in verbs }
       \cup { v \o SP \o UserA \o <<" ", "0", " ", "*">> : v \in verbs }

CodecLines ==
    TokenLines \cup WellFormedLines \cup EmptyKeyJoinLines \cup TrailerLines
    \cup VerbLines

\* Command values of the verbs Command::from_str has an arm for.
ChanVecs == { <<ChanC>>, <<ChanC, <<"#", "d">> >> }
KeyVecs == { <<KeyK>>, <<KeyK, <<"j">> >> }

Commands ==
    { Cmd("DIE", <<>>), Cmd("REHASH", <<>>), Cmd("MOTD", <<None>>),
      Cmd("QUIT", <<None>>) }
    \cup { Cmd("QUIT", <<Some(t)>>) : t \in TrailerValues }
    \cup { Cmd("NICK", <<w>>) : w \in Words }
    \cup { Cmd("PING", <<w>>) : w \in Words }
    \cup { Cmd("PONG", <<ServerIp, w>>) : w \in Words }
    \cup { Cmd("JOIN", <<c, None>>) : c \in ChanVecs }
    \cup { Cmd("JOIN", <<c, Some(k)>>) : c \in ChanVecs, k \in KeyVecs }
    \cup { Cmd("PRIVMSG", <<c, t>>) : c \in ChanVecs, t \in TrailerValues }
    \cup { Cmd("USER", <<w, <<"0">>, <<"*">>, t>>) : w \in Words, t \in TrailerValues }

InitCodec ==
    /\ hub_state = "Running"
    /\ notify_shutdown = TRUE
    /\ server_q = <<>>
    /\ client_tx = <<>>
    /\ nsessions = 0
    /\ cc = [s \in Sessions |-> NoConnection]
    /\ nlines = 0
    /\ capacity = [server |-> ServerCap, client |-> ClientCap]
    /\ \/ \E line \in CodecLines : last = Ev(0, "input", line, "-", <<>>)
       \/ \E cmd \in Commands : last = Ev(0, "value", cmd, "-", <<>>)
    /\ MainIdle

\* res.unwrap().parse(): str::parse::<Message> is Message::from_str.
CodecParse ==
    /\ last.op = "input"
    /\ last' = Ev(0, "parse", last.input, MessageFromStr(last.input).tag, <<>>)
    /\ UNCHANGED main_vars
    /\ UNCHANGED <<hub_state, notify_shutdown, server_q, client_tx, nsessions,
                   cc, nlines, capacity>>

\* str.parse::<Command>() and to_string() of the result, as
\* test_to_string_matches_from_string does: the frame is the serialization.
CodecCommand ==
    /\ last.op = "input"
    /\ LET r == CommandFromStr(last.input)
       IN last' = Ev(0, "command", last.input, r.tag,
                     IF IsOk(r) THEN <<CommandToString(r.val)>> ELSE <<>>)
    /\ UNCHANGED main_vars
    /\ UNCHANGED <<hub_state, notify_shutdown, server_q, client_tx, nsessions,
                   cc, nlines, capacity>>

\* cmd.to_string().parse::<Command>(): the frame is the serialization, the
\* result what parsing it gives.
CodecReparse ==
    /\ last.op = "value"
    /\ last' = Ev(0, "reparse", last.input,
                  CommandFromStr(CommandToString(last.input)),
                  <<CommandToString(last.input)>>)
    /\ UNCHANGED main_vars
    /\ UNCHANGED <<hub_state, notify_shutdown, server_q, client_tx, nsessions,
                   cc, nlines, capacity>>

NextCodec ==
    \/ CodecParse
    \/ CodecCommand
    \/ CodecReparse

SpecCodec == InitCodec /\ [][NextCodec]_vars

-----------------------------------------------------------------------------
(* main.rs: the standalone server.                                         *)

T_MainQuit ==
    <<"Q","u","i","t",":"," ","S","e","r","v","e","r"," ","s","h","u","t","t","i","n","g"," ","d","o","w","n">>
T_MainError ==
    <<"S","e","r","v","e","r"," ","s","h","u","t","t","i","n","g"," ","d","o","w","n","!">>

\* IrcWriter::quit
MainQuitFrame(username) ==
    <<":">> \o username \o SP \o S_QUIT \o <<" ", ":">> \o T_MainQuit \o CRLF

\* IrcWriter::error
MainErrorFrame(message) == S_ERROR \o <<" ", ":">> \o message

\* writer.quit(&client_info).await?; writer.error("Server shutting down!")
MainFarewell(username) ==
    <<MainQuitFrame(username), MainErrorFrame(T_MainError)>>

InitMain ==
    /\ hub_state = "Running"
    /\ notify_shutdown = TRUE
    /\ server_q = <<>>
    /\ client_tx = <<>>
    /\ nsessions = 0
    /\ cc = [s \in Sessions |-> NoConnection]
    /\ nlines = 0
    /\ capacity = [server |-> ServerCap, client |-> ClientCap]
    /\ last = Ev(0, "init", <<>>, "-", <<>>)
    /\ MainIdle

\* listener.accept(); killers.lock().unwrap().push(tx); tokio::spawn(...).
\* The interrupt task holds the lock of killers for the whole of its loop.
MainAccept ==
    /\ process = "Up"
    /\ ctrl_c.pc \in {"Waiting", "Sleeping"}
    /\ Len(killers) < MaxClients
    /\ killers' = Append(killers, Len(killers) + 1)
    /\ handlers' = [handlers EXCEPT ![Len(killers) + 1] = NewHandler]
    /\ UNCHANGED <<ctrl_c, process>>
    /\ UNCHANGED server_vars

\* killers.lock().unwrap() after the interrupt task panicked holding the
\* lock: the mutex is poisoned, main panics and the process ends.
MainAcceptPoisoned ==
    /\ process = "Up"
    /\ ctrl_c.pc = "Panicked"
    /\ Len(killers) < MaxClients
    /\ process' = "Aborted"
    /\ UNCHANGED <<killers, handlers, ctrl_c>>
    /\ UNCHANGED server_vars

\* "USER" => client_info.username = parts[1]
HandlerUser(c) ==
    /\ process = "Up"
    /\ handlers[c].pc = "Select"
    /\ handlers[c].username = <<>>
    /\ handlers' = [handlers EXCEPT ![c].username = UserA]
    /\ UNCHANGED <<killers, ctrl_c, process>>
    /\ UNCHANGED server_vars

\* The task returns from its read branch: EOF (u == 0), "QUIT" or an I/O
\* error.  rx is dropped with the task.
HandlerClose(c) ==
    /\ process = "Up"
    /\ handlers[c].pc = "Select"
    /\ handlers' = [handlers EXCEPT ![c].pc = "Done", ![c].changed = FALSE]
    /\ UNCHANGED <<killers, ctrl_c, process>>
    /\ UNCHANGED server_vars

\* _ = rx.changed() => { writer.quit; writer.error; return Ok(()) }
HandlerInterrupted(c) ==
    /\ process = "Up"
    /\ handlers[c].pc = "Select"
    /\ handlers[c].changed
    /\ handlers' = [handlers EXCEPT ![c].pc = "Done", ![c].changed = FALSE,
                                    ![c].wrote = MainFarewell(handlers[c].username)]
    /\ UNCHANGED <<killers, ctrl_c, process>>
    /\ UNCHANGED server_vars

\* tokio::signal::ctrl_c().await returns; thread_killers.lock().unwrap()
CtrlC ==
    /\ process = "Up"
    /\ ctrl_c.pc = "Waiting"
    /\ ctrl_c' = [pc |-> "Notifying", next |-> 1, total |-> Len(killers)]
    /\ UNCHANGED <<killers, handlers, process>>
    /\ UNCHANGED server_vars

\* tx.send(()).unwrap(): watch::Sender::send fails when no receiver is left,
\* and the unwrap panics.
SignalSend ==
    /\ process = "Up"
    /\ ctrl_c.pc = "Notifying"
    /\ ctrl_c.next <= Len(killers)
    /\ LET c == killers[ctrl_c.next]
       IN IF handlers[c].pc = "Select"
          THEN /\ handlers' = [handlers EXCEPT ![c].changed = TRUE]
               /\ ctrl_c' = [ctrl_c EXCEPT !.next = @ + 1]
          ELSE /\ ctrl_c' = [ctrl_c EXCEPT !.pc = "Panicked"]
               /\ UNCHANGED handlers
    /\ UNCHANGED <<killers, process>>
    /\ UNCHANGED server_vars

\* The loop is over: tokio::time::sleep(Duration::from_millis(100))
SignalSleep ==
    /\ process = "Up"
    /\ ctrl_c.pc = "Notifying"
    /\ ctrl_c.next > Len(killers)
    /\ ctrl_c' = [ctrl_c EXCEPT !.pc = "Sleeping"]
    /\ UNCHANGED <<killers, handlers, process>>
    /\ UNCHANGED server_vars

\* exit(0)
SignalExit ==
    /\ process = "Up"
    /\ ctrl_c.pc = "Sleeping"
    /\ process' = "Exited"
    /\ UNCHANGED <<killers, handlers, ctrl_c>>
    /\ UNCHANGED server_vars

NextMain ==
    \/ MainAccept
    \/ MainAcceptPoisoned
    \/ \E c \in Clients : HandlerUser(c)
    \/ \E c \in Clients : HandlerClose(c)
    \/ \E c \in Clients : HandlerInterrupted(c)
    \/ CtrlC
    \/ SignalSend
    \/ SignalSleep
    \/ SignalExit

SpecMain == InitMain /\ [][NextMain]_vars

-----------------------------------------------------------------------------
(* Properties.  `last` says what the latest step read and wrote.           *)

\* The latest step was a session taking an envelope off its client_rx.
Dequeued == last.op = "recv" /\ last.result # "Lagged"

DequeuedKind(kind) == Dequeued /\ last.input.kind = kind

\* p is a prefix of s.
IsPrefix(p, s) == Len(p) <= Len(s) /\ SubSeq(s, 1, Len(p)) = p

\* Messages waiting in the hub's inbound queue or held by a session whose
\* server_tx.send is suspended.
InTransit == Len(server_q) + Cardinality({s \in Sessions : cc[s].pc = "Send"})

\* C1: shutdown completeness.  In no reachable state has run() returned
\* while a session task is still running or still holds its clone of the
\* shutdown-complete sender.
ShutdownCompleteness ==
    hub_state = "Stopped" =>
        \A s \in Sessions : ~Alive(cc[s]) /\ ~cc[s]._shutdown_complete

\* run() has returned after every socket the bounds allow was accepted and
\* every session task spawned for them has finished.
ShutdownCompletenessWitness ==
    /\ hub_state = "Stopped"
    /\ nsessions = MaxSessions
    /\ \A s \in 1..nsessions : cc[s].pc = "Done"

\* C2: broadcast self-exclusion.  The session that originated a PRIVMSG
\* never writes that PRIVMSG to its own socket: when it takes the envelope
\* of its own PRIVMSG off the broadcast channel it writes nothing, whatever
\* lines it processed since it enqueued the message.
SelfExclusion ==
    (DequeuedKind("PrivMessage") /\ last.input.item.origin = last.actor)
        => last.frames = <<>>

\* C3: channel scoping.  A session that takes a PrivMessage envelope with
\* targets T off the broadcast channel writes the PRIVMSG if and only if its
\* channels list has an element in common with T and it is not the session
\* that originated the message.
ChannelScoping ==
    DequeuedKind("PrivMessage") =>
        (last.frames # <<>>
            <=> /\ Intersects(cc[last.actor].info.channels, last.input.channels)
                /\ last.input.item.origin # last.actor)

\* C4: two-client channel scenario.  If session B applied the client line
\* 'JOIN c' before another session A, whose username differs from B's, sent
\* 'PRIVMSG c :text', then B, taking the envelope off the broadcast channel,
\* writes one frame, ':<A's username> PRIVMSG c :text'.
TwoClientScenario ==
    (/\ DequeuedKind("PrivMessage")
     /\ last.actor \in last.input.item.joined
     /\ last.input.item.origin # last.actor
     /\ last.input.item.message.source # Some(cc[last.actor].info.username))
        => /\ Len(last.frames) = 1
           /\ \E c \in ChannelNames : \E t \in Texts :
                IsPrefix(<<":">> \o Unwrap(last.input.item.message.source) \o SP
                             \o S_PRIVMSG \o SP \o c \o <<" ", ":">> \o t,
                         last.frames[1])

\* C5: a parse error does not terminate the session.  After the session
\* read a line that fails to parse it is still running.
ParseErrorKeepsSession ==
    (last.op = "line" /\ last.result = "Err") => Alive(cc[last.actor])

\* C6: broadcast lag is not fatal.  After the session's receiver reported
\* that it lagged the session is still running.
LagKeepsSession ==
    (last.op = "recv" /\ last.result = "Lagged") => Alive(cc[last.actor])

\* C7: failure isolation.  Routing a message from the inbound queue leaves
\* the hub Running, whatever has become of the sessions, the one that
\* enqueued the message included.
FailureIsolation ==
    last.op = "route" => hub_state = "Running"

\* C8: no re-broadcast.  Applying a message whose side is Server never
\* returns Broadcast; the step in which a session takes an envelope off the
\* broadcast channel leaves the hub's inbound queue as it was and suspends
\* no session in a send; the messages in transit to the hub grow only by the
\* lines read; and every publication takes one message out of the queue.
NoRebroadcast ==
    /\ \A line \in WideLines : \A u \in {<<>>, UserA} :
          LET r == MessageFromStr(line)
          IN IsOk(r) =>
               apply([r.val EXCEPT !.side = "Server", !.source = Some(u)],
                     ClientInfoDefault).code # "Broadcast"
    /\ [][
       /\ last'.op = "recv" =>
            /\ server_q' = server_q
            /\ \A s \in Sessions : cc'[s].pc = "Send" => cc[s].pc = "Send"
       /\ InTransit' <= InTransit + (nlines' - nlines)
       /\ \A s \in Sessions :
            cc'[s].client_rx > cc[s].client_rx => Len(server_q') = Len(server_q) - 1
      ]_vars

\* A session has taken the JOIN of another session off the broadcast
\* channel, applied it with side Server and written it to its socket.
NoRebroadcastWitness ==
    /\ DequeuedKind("Join")
    /\ last.input.item.message.side = "Server"
    /\ last.input.item.origin # last.actor
    /\ last.result = "Fine"
    /\ last.frames # <<>>

JoinDeliveredToAll ==
    /\ (last.op = "route" /\ last.result = "Ok" /\ IsSome(last.input)) =>
          (Unwrap(last.input).kind = "Join" =>
              \A s \in Sessions :
                  (Alive(cc[s]) /\ ~Lagged(cc[s].client_rx)) =>
                      /\ cc[s].client_rx >= 1
                      /\ client_tx[Len(client_tx)] = Unwrap(last.input))
    /\ DequeuedKind("Join") =>
          /\ last.frames = write_raw(MessageToString(last.input.item.message))
          /\ Alive(cc[last.actor])

\* A session that is in no channel and did not send the JOIN has taken its
\* envelope off the broadcast channel and written the frame.
JoinDeliveredToAllWitness ==
    /\ DequeuedKind("Join")
    /\ last.input.item.origin # last.actor
    /\ cc[last.actor].info.channels = <<>>
    /\ last.input.item.message.source # Some(cc[last.actor].info.username)
    /\ last.frames # <<>>

\* The message the latest step put at the tail of the hub's inbound queue.
Newest == server_q[Len(server_q)]

\* C11: source and side rewriting.  Every message in the hub's inbound queue
\* or held by a suspended send has side Server and a source; the message a
\* session enqueues carries the username the session has at that moment,
\* whatever source the client's line carried; and a JOIN or PRIVMSG line is
\* applied with side Client, so it asks for a broadcast.
SourceRewriting ==
    /\ \A i \in 1..Len(server_q) :
          server_q[i].message.side = "Server" /\ IsSome(server_q[i].message.source)
    /\ \A s \in Sessions :
          cc[s].pc = "Send" =>
              /\ Unwrap(cc[s].pending).message.side = "Server"
              /\ Unwrap(cc[s].pending).message.source = Some(cc[s].info.username)
    /\ (last.op = "line" /\ last.result = "Broadcast" /\ cc[last.actor].pc = "Select") =>
          /\ Newest.origin = last.actor
          /\ Newest.message.source = Some(cc[last.actor].info.username)
    /\ last.op = "send" =>
          /\ Newest.origin = last.actor
          /\ Newest.message.source = Some(cc[last.actor].info.username)
    /\ (last.op = "line" /\ IsOk(MessageFromStr(last.input))) =>
          (MessageFromStr(last.input).val.command.verb \in {"JOIN", "PRIVMSG"}
              => last.result = "Broadcast")

\* A session whose username is set has read a PRIVMSG line with a source
\* prefix of the client's choosing and enqueued it under its own username.
SourceRewritingWitness ==
    /\ last.op = "line"
    /\ last.input = PrefixedPrivmsgLine
    /\ last.result = "Broadcast"
    /\ cc[last.actor].info.username = UserA
    /\ Len(server_q) > 0
    /\ Newest.message.source = Some(UserA)
    /\ MessageFromStr(last.input).val.source = Some(<<"x">>)

\* C12: hub routing.  For the message it takes off its inbound queue the hub
\* makes one publication if the command is PRIVMSG (a PrivMessage whose
\* channels are the message's targets) or JOIN (a Join), each carrying the
\* message as it was in the queue, and none for any other command; a
\* publication that succeeds adds one unread envelope, that one, for every
\* subscribed receiver (a receiver more than the capacity behind has lost
\* its place).
HubRouting ==
    /\ \A line \in SoloLines \cup WideLines :
          LET r == MessageFromStr(line)
          IN (IsOk(r) /\ r.val.command.verb \notin {"PRIVMSG", "JOIN"}) =>
                 send_broadcast(InFlight(r.val, 1, {})) = None
    /\ [][last'.op = "route" =>
            LET item == Head(server_q)
                verb == item.message.command.verb
            IN /\ server_q' = Tail(server_q)
               /\ verb = "PRIVMSG" =>
                    last'.input = Some([kind |-> "PrivMessage",
                                        channels |-> item.message.command.args[1],
                                        item |-> item])
               /\ verb = "JOIN" =>
                    last'.input = Some([kind |-> "Join", channels |-> <<>>, item |-> item])
               /\ verb \notin {"PRIVMSG", "JOIN"} => last'.input = None
               /\ last'.result = "Err" => Receivers(cc) = {} /\ cc' = cc
               /\ (last'.result = "Ok" /\ IsSome(last'.input)) =>
                    \A s \in Sessions :
                        (Alive(cc[s]) /\ ~Lagged(cc[s].client_rx)) =>
                            /\ cc'[s].client_rx = cc[s].client_rx + 1
                            /\ ~Lagged(cc'[s].client_rx) =>
                                  client_tx'[Len(client_tx')] = Unwrap(last'.input)
         ]_vars

\* The hub has published the PrivMessage envelope of a PRIVMSG to a channel
\* and a subscribed receiver has it unread.
HubRoutingWitness ==
    /\ last.op = "route"
    /\ last.result = "Ok"
    /\ IsSome(last.input)
    /\ Unwrap(last.input).kind = "PrivMessage"
    /\ Unwrap(last.input).channels = <<ChanC>>
    /\ \E s \in Sessions : Alive(cc[s]) /\ cc[s].client_rx = 1

\* The last unread values of a channel, oldest first.
UnreadOf(buf, unread) == SubSeq(buf, Len(buf) - unread + 1, Len(buf))

\* The envelopes session s has not yet taken off client_rx, oldest first.
Unread(s) == UnreadOf(client_tx, cc[s].client_rx)

\* The messages on their way to session s: those in its unread envelopes,
\* then those in the hub's inbound queue.
Pipeline(s) ==
    [i \in 1..cc[s].client_rx |-> Unread(s)[i].item] \o server_q

\* Messages of one origin are in the order of the lines they came from.
InLineOrder(q) ==
    \A i \in 1..Len(q) : \A j \in 1..Len(q) :
        (i < j /\ q[i].origin = q[j].origin) => q[i].seq < q[j].seq

\* C13: ordering.  Everything on its way to a session (its unread
\* envelopes, then the hub's inbound queue, then the message of a suspended
\* send) holds the messages of one originator in the order of the
\* originator's lines, and no line read later can get in front; a line that
\* asks for a broadcast is enqueued at the tail under its own line number;
\* and a session takes the oldest of its unread envelopes, leaving the
\* others in place.  So a session writes the broadcasts of one originator
\* in the order the originator's lines arrived.
Ordering ==
    /\ [](\A s \in Sessions :
            (Alive(cc[s]) /\ ~Lagged(cc[s].client_rx)) =>
                /\ InLineOrder(Pipeline(s))
                /\ \A i \in 1..Len(Pipeline(s)) : Pipeline(s)[i].seq <= nlines
                /\ \A o \in Sessions :
                      cc[o].pc = "Send" =>
                          /\ Unwrap(cc[o].pending).seq <= nlines
                          /\ \A i \in 1..Len(Pipeline(s)) :
                                Pipeline(s)[i].origin = o =>
                                    Pipeline(s)[i].seq < Unwrap(cc[o].pending).seq)
    /\ [][/\ (last'.op = "line" /\ last'.result = "Broadcast") =>
                /\ nlines' = nlines + 1
                /\ cc'[last'.actor].pc = "Select" =>
                       /\ Len(server_q') = Len(server_q) + 1
                       /\ SubSeq(server_q', 1, Len(server_q)) = server_q
                       /\ server_q'[Len(server_q')].seq = nlines'
                /\ cc'[last'.actor].pc = "Send" =>
                       Unwrap(cc'[last'.actor].pending).seq = nlines'
          /\ (last'.op = "recv" /\ last'.result # "Lagged") =>
                /\ last'.input = Unread(last'.actor)[1]
                /\ UnreadOf(client_tx', cc'[last'.actor].client_rx) =
                      Tail(Unread(last'.actor))
         ]_vars

\* A session has taken the first of two broadcasts of another session off
\* client_rx and the second, from that session's next line, is the oldest it
\* has not read.
OrderingWitness ==
    /\ Dequeued
    /\ last.input.item.origin # last.actor
    /\ last.input.item.seq = 1
    /\ cc[last.actor].client_rx = 1
    /\ Unread(last.actor)[1].item.origin = last.input.item.origin
    /\ Unread(last.actor)[1].item.seq = 2

\* C14: backpressure.  The hub's inbound queue never holds more messages
\* than its capacity.  A step that asks for a broadcast and finds the queue
\* full leaves the queue as it is and suspends the session holding the
\* message; a suspended session takes no step but the completion of its
\* send (no line, no envelope, no frame), which appends the held message
\* and resumes the session; meanwhile only the hub's publish touches it, by
\* counting one more unread envelope.  The hub's routing step is enabled
\* whenever the hub is running with a message queued, whatever the
\* subscribers have left unread.
Backpressure ==
    /\ [](/\ Len(server_q) <= capacity.server
          /\ (hub_state = "Running" /\ Len(server_q) > 0) => ENABLED HubRoute
          /\ \A s \in Sessions :
                cc[s].pc = "Send" <=> IsSome(cc[s].pending))
    /\ [][/\ (last'.op \in {"line", "recv"} /\ last'.result = "Broadcast"
                 /\ ~HasRoom) =>
                /\ server_q' = server_q
                /\ cc'[last'.actor].pc = "Send"
          /\ \A s \in Sessions :
                cc[s].pc = "Send" =>
                    /\ last'.actor = s =>
                          /\ last'.op = "send"
                          /\ last'.frames = <<>>
                          /\ HasRoom
                          /\ server_q' = Append(server_q, Unwrap(cc[s].pending))
                          /\ cc'[s].pc = "Select"
                    /\ last'.actor # s =>
                          \/ cc'[s] = cc[s]
                          \/ /\ last'.op = "route"
                             /\ cc'[s] = [cc[s] EXCEPT !.client_rx = @ + 1]
         ]_vars

\* A suspended send has just completed, filling the queue again.
BackpressureWitness ==
    /\ last.op = "send"
    /\ cc[last.actor].pc = "Select"
    /\ Len(server_q) = capacity.server
    /\ Newest = Unwrap(last.input)

\* The last two characters of a frame are CR LF.
EndsWithCRLF(frame) ==
    /\ Len(frame) >= 2
    /\ SubSeq(frame, Len(frame) - 1, Len(frame)) = CRLF

\* A frame that ends with CR LF and holds no other CR or LF.
EndsWithOneCRLF(frame) ==
    /\ Len(frame) >= 2
    /\ SubSeq(frame, Len(frame) - 1, Len(frame)) = CRLF
    /\ \A i \in 1..(Len(frame) - 2) : frame[i] \notin {"\r", "\n"}

\* C15: write framing.  Every frame a step writes to the client socket
\* ends with exactly one CR LF pair.
WriteFraming ==
    \A i \in 1..Len(last.frames) : EndsWithOneCRLF(last.frames[i])

\* C16: no-panic parsing.  Parsing a line into a Message returns a Message
\* or an InvalidInput error, whatever the line.
NoPanicParsing ==
    last.op = "parse" =>
        \/ IsOk(MessageFromStr(last.input))
        \/ MessageFromStr(last.input) = InvalidInput

\* C17: client QUIT.  A session that reads a QUIT line, with or without a
\* quit message, writes the one frame 'ERROR :Goodbye!', leaves the hub's
\* inbound queue as it is and ends; a session that has ended takes no
\* further step.
ClientQuit ==
    [][/\ (last'.op = "line" /\ last'.input \in {QuitLine, QuitAloneLine}) =>
             /\ last'.frames = write_error(T_Goodbye)
             /\ server_q' = server_q
             /\ cc'[last'.actor].pc = "Done"
       /\ \A s \in Sessions : cc[s].pc = "Done" => last'.actor # s
      ]_vars

\* C18: farewell.  A session that finds its peer gone or the shutdown
\* signalled writes the QUIT frame and then the ERROR frame and ends; when
\* one of the two writes fails it has written the frames before the failing
\* one, in that order, and ends all the same: either way the connection is
\* dropped, its shutdown-complete sender with it, and the hub's queue is
\* left alone.
Farewell ==
    [][last'.op \in {"eof", "signal"} =>
          LET s == last'.actor
              farewell == write_quit(cc[s].info, T_ShutdownQuit)
                              \o write_error(T_ShutdownError)
          IN /\ cc[s].pc = "Select"
             /\ last'.op = "signal" => ShutdownSignalled
             /\ last'.result = "Ok" => last'.frames = farewell
             /\ last'.result = "Err" =>
                   /\ IsPrefix(last'.frames, farewell)
                   /\ last'.frames # farewell
             /\ cc'[s].pc = "Done"
             /\ ~cc'[s]._shutdown_complete
             /\ server_q' = server_q
      ]_vars

\* The shutdown was signalled, the session wrote the QUIT frame, the write of
\* the ERROR frame failed, and the session is gone with its token.
FarewellWitness ==
    /\ last.op = "signal"
    /\ last.result = "Err"
    /\ Len(last.frames) = 1
    /\ cc[last.actor].pc = "Done"
    /\ ~cc[last.actor]._shutdown_complete

\* C19: unknown verb.  A session that reads a line whose verb is not
\* recognized, alone or with an argument, writes the one 421 reply naming
\* the line and is back in its select.
UnknownVerb ==
    (last.op = "line" /\ last.input \in {FlooberLine, FlooberArgLine}) =>
        /\ last.frames = write_unknown(cc[last.actor].info, Trim(last.input))
        /\ Len(last.frames) = 1
        /\ cc[last.actor].pc = "Select"

\* The numerics of the welcome burst, in order.
WelcomeBurst ==
    <<RPL_WELCOME, RPL_YOURHOST, RPL_CREATED, RPL_MYINFO, RPL_ISUPPORT>>

\* What every numeric reply starts with: the server's address as the source,
\* the three-digit code, and the client token.
NumericHead(number, token) ==
    <<":">> \o ServerIp \o SP \o NumericToString(number) \o SP \o token \o SP

\* C20: client USER.  A session that reads a USER line takes username and
\* realname from the command, keeps nickname and channels, and writes five
\* frames: the numerics 001, 002, 003, 004, 005 in that order, each with
\* the new username as the client token, '*' when the username is empty.
\* It enqueues nothing and is back in its select.
ClientUser ==
    /\ WelcomeBurst = <<1, 2, 3, 4, 5>>
    /\ [][(/\ last'.op = "line"
           /\ IsOk(MessageFromStr(last'.input))
           /\ MessageFromStr(last'.input).val.command.verb = "USER") =>
              LET s == last'.actor
                  c == MessageFromStr(last'.input).val.command
                  token == IF c.args[1] = <<>> THEN <<"*">> ELSE c.args[1]
              IN /\ cc'[s].info.username = c.args[1]
                 /\ cc'[s].info.realname = c.args[4]
                 /\ cc'[s].info.nickname = cc[s].info.nickname
                 /\ cc'[s].info.channels = cc[s].info.channels
                 /\ Len(last'.frames) = 5
                 /\ \A i \in 1..5 :
                       /\ IsPrefix(NumericHead(WelcomeBurst[i], token), last'.frames[i])
                       /\ EndsWithCRLF(last'.frames[i])
                 /\ server_q' = server_q
                 /\ cc'[s].pc = "Select"
         ]_vars

\* A session that had joined a channel has read a USER line and written the
\* burst under the new username.
ClientUserWitness ==
    /\ last.op = "line"
    /\ last.input = UserLine(UserA)
    /\ cc[last.actor].info.username = UserA
    /\ cc[last.actor].info.channels # <<>>
    /\ Len(last.frames) = 5
    /\ IsPrefix(NumericHead(RPL_ISUPPORT, UserA), last.frames[5])

\* The frame is the numeric reply `number`.
IsNumeric(frame, number) ==
    IsPrefix(<<":">> \o ServerIp \o SP \o NumericToString(number) \o SP, frame)

\* The step wrote a registration burst.
WroteBurst(ev) ==
    \E i \in 1..Len(ev.frames) : IsNumeric(ev.frames[i], RPL_WELCOME)

\* C21: registration once.  A session writes the registration burst at most
\* once: a step that writes it is taken by a session that has applied no
\* USER before (its realname, which only USER sets and never to the empty
\* string, is still empty).
RegistrationOnce ==
    [][WroteBurst(last') => cc[last'.actor].info.realname = <<>>]_vars

\* The command a line parses to, for a line that parses.
ParsedVerb(line) ==
    IF IsOk(MessageFromStr(line)) THEN MessageFromStr(line).val.command.verb
    ELSE "-"

\* C22: client MOTD.  A session that reads a line that parses to MOTD writes
\* 375 first, 376 last and one or more 372 between them, and nothing else.
MotdReplies ==
    (last.op = "line" /\ ParsedVerb(last.input) = "MOTD") =>
        /\ Len(last.frames) >= 3
        /\ IsNumeric(last.frames[1], RPL_MOTDSTART)
        /\ IsNumeric(last.frames[Len(last.frames)], RPL_ENDOFMOTD)
        /\ \A i \in 2..(Len(last.frames) - 1) : IsNumeric(last.frames[i], RPL_MOTD)

\* sub occurs in s as a run of consecutive characters.
Occurs(sub, s) ==
    \E i \in 1..(Len(s) - Len(sub) + 1) : SubSeq(s, i, i + Len(sub) - 1) = sub

\* C23: client PING.  A session that reads 'PING t' writes one frame, a PONG
\* that carries the server's address and the token t, leaves the hub's
\* inbound queue as it is and is back in its select.
ClientPing ==
    [][(last'.op = "line" /\ ParsedVerb(last'.input) = "PING") =>
          /\ Len(last'.frames) = 1
          /\ IsPrefix(S_PONG \o SP, last'.frames[1])
          /\ Occurs(ServerIp, last'.frames[1])
          /\ Occurs(Trim(MessageFromStr(last'.input).val.command.args[1]),
                    last'.frames[1])
          /\ server_q' = server_q
          /\ cc'[last'.actor].pc = "Select"
      ]_vars

\* C24: serialize after parse.  A well-formed line of a verb the parser
\* recognizes parses, and the serialization of the result is the line.
SerializeAfterParse ==
    (last.op = "command" /\ last.input \in WellFormedLines) =>
        /\ last.result = "Ok"
        /\ last.frames = <<last.input>>

\* C25: parse after serialize.  Parsing the serialization of a Command
\* value succeeds and returns the value.
ParseAfterSerialize ==
    last.op = "reparse" => last.result = Ok(last.input)

\* What the classification of the prefix makes of a line of two or more
\* tokens: tags, source and the tokens the command starts at.
Classified(line) ==
    LET parts == Split(line, " ")
        at0 == StartsWith(parts[1], "@")
        colon0 == StartsWith(parts[1], ":")
        colon1 == StartsWith(parts[2], ":")
        tags == IF at0 THEN Some(Split(Tail(parts[1]), ";")) ELSE None
        source == CASE at0 /\ colon1 -> Some(Tail(parts[2]))
                    [] colon0 -> Some(Tail(parts[1]))
                    [] OTHER -> None
        from == CASE at0 /\ colon1 -> 3
                  [] at0 \/ colon0 -> 2
                  [] OTHER -> 1
        command == CommandFromStr(Join(SliceFrom(parts, from), SP))
    IN IF IsOk(command) THEN Ok(Msg(tags, source, command.val, "Unknown"))
       ELSE command

\* C26: prefix classification.  A line of two or more tokens parses to what
\* its prefix says: '@tags :source cmd' to tags (without '@', split on ';'),
\* source (without ':') and the command from token 2; '@tags cmd' to tags
\* and the command from token 1; ':source cmd' to source and the command
\* from token 1; any other line to the command from token 0.  (A line that
\* starts with two ':' tokens is rejected and is not part of the rule.)
PrefixClassification ==
    (/\ last.op = "parse"
     /\ Len(Split(last.input, " ")) >= 2
     /\ ~(StartsWith(Split(last.input, " ")[1], ":")
            /\ StartsWith(Split(last.input, " ")[2], ":"))) =>
        MessageFromStr(last.input) = Classified(last.input)

\* Channel vectors, one of them with whitespace in a name, and key vectors,
\* one of them a single empty key.
JoinChanVecs == ChanVecs \cup { <<ChanC \o CRLF>> }
JoinKeyVecs == KeyVecs \cup { << <<>> >>, <<KeyK \o CRLF>> }

\* C27: JOIN parsing.  'JOIN <chans>' parses to the channels between the
\* commas, untrimmed, and no keys; 'JOIN <chans> <keys>' to the channels and
\* the keys between the commas.  A keys token that is the empty string
\* gives one empty key, not the absence of keys.
JoinParsing ==
    last.op = "command" =>
        \A cv \in JoinChanVecs :
            /\ last.input = S_JOIN \o SP \o Join(cv, <<",">>) =>
                  CommandFromStr(last.input) = Ok(Cmd("JOIN", <<cv, None>>))
            /\ \A kv \in JoinKeyVecs :
                  last.input = S_JOIN \o SP \o Join(cv, <<",">>) \o SP \o Join(kv, <<",">>) =>
                      CommandFromStr(last.input) = Ok(Cmd("JOIN", <<cv, Some(kv)>>))

\* 'JOIN #c ' has been parsed: the keys are one empty key.
JoinParsingWitness ==
    /\ last.op = "command"
    /\ last.input = S_JOIN \o SP \o ChanC \o SP
    /\ last.result = "Ok"
    /\ CommandFromStr(last.input).val.args[2] = Some(<< <<>> >>)
    /\ CommandFromStr(S_JOIN \o SP \o ChanC).val.args[2] = None

\* C28: JOIN shape.  A JOIN the parser returns has at least one channel
\* and, when it has keys, as many keys as channels.
JoinShape ==
    (/\ last.op = "command"
     /\ last.result = "Ok"
     /\ CommandFromStr(last.input).val.verb = "JOIN") =>
        LET c == CommandFromStr(last.input).val
        IN /\ Len(c.args[1]) >= 1
           /\ IsSome(c.args[2]) => Len(Unwrap(c.args[2])) = Len(c.args[1])

\* The trailer rule for one head and one text: the text after ':' parses to
\* the text, the text without ':' too unless it begins with ':' itself,
\* and ':' alone is rejected.
TrailerRule(input, head, t, cmd) ==
    /\ input = head \o <<" ", ":">> \o t => CommandFromStr(input) = Ok(cmd)
    /\ (input = head \o SP \o t /\ ~StartsWith(t, ":")) =>
          CommandFromStr(input) = Ok(cmd)
    /\ input = head \o <<" ", ":">> => CommandFromStr(input) = InvalidInput

\* C29: trailer rule.  The message of PRIVMSG, of QUIT with a message and
\* of USER is what follows the head, spaces kept, less one leading ':':
\* a one-word text parses the same with and without ':', a text of several
\* words too, a text that begins with ':' keeps it when written after
\* another ':', and ':' with nothing after it is InvalidInput.
TrailerParsing ==
    last.op = "command" =>
        \A t \in TrailerValues :
            /\ TrailerRule(last.input, PrivmsgHead, t, Cmd("PRIVMSG", << <<ChanC>>, t >>))
            /\ TrailerRule(last.input, S_QUIT, t, Cmd("QUIT", <<Some(t)>>))
            /\ \A w \in Words :
                  TrailerRule(last.input, UserHead(w), t,
                              Cmd("USER", <<w, <<"0">>, <<"*">>, t>>))

\* 'USER a 0 * ::m' has been parsed: the realname is ':m'.
TrailerParsingWitness ==
    /\ last.op = "command"
    /\ last.input = UserHead(UserA) \o <<" ", ":", ":", "m">>
    /\ last.result = "Ok"
    /\ CommandFromStr(last.input).val.args[4] = <<":", "m">>
    /\ CommandFromStr(UserHead(UserA) \o <<" ", "b">>).val.args[4] = <<"b">>

\* C30: command classification.  By its first token, upper-cased: a line
\* whose first token is empty is InvalidInput; one whose first token is no
\* verb of the parser is UNKNOWN of the trimmed line; MOTD with anything
\* after it is UNIMPLEMENTED of the trimmed line; a verb with fewer tokens
\* than its arm needs is InvalidInput.  Lower case is the same verb.
CommandClassification ==
    last.op = "command" =>
        LET parts == Split(last.input, " ")
            verb == ToUppercase(parts[1])
            r == CommandFromStr(last.input)
        IN /\ verb = <<>> => r = InvalidInput
           /\ (verb # <<>> /\ verb \notin Verbs) =>
                 r = Ok(Cmd("UNKNOWN", <<Trim(last.input)>>))
           /\ (verb = S_MOTD /\ Len(parts) > 1) =>
                 r = Ok(Cmd("UNIMPLEMENTED", <<Trim(last.input)>>))
           /\ (verb \in Verbs /\ Len(parts) < MinTokens(verb)) => r = InvalidInput
           /\ (verb \in Verbs /\ Len(parts) >= MinTokens(verb)
                 /\ ~(verb = S_MOTD /\ Len(parts) > 1)) =>
                 \/ IsOk(r) /\ r.val.verb \notin {"UNKNOWN", "UNIMPLEMENTED"}
                 \/ r = InvalidInput
           /\ last.input = LowerJoin \o SP \o ChanC =>
                 r = Ok(Cmd("JOIN", << <<ChanC>>, None >>))
           /\ last.input = LowerFloober \o SP \o ChanC =>
                 r = Ok(Cmd("UNKNOWN", <<LowerFloober \o SP \o ChanC>>))
           /\ last.input = S_FLOOBER \o CRLF => r = Ok(Cmd("UNKNOWN", <<S_FLOOBER>>))
           /\ last.input = LowerJoin => r = InvalidInput

\* 'MOTD #c' has been parsed: UNIMPLEMENTED; and 'USER a 0 *', one token
\* short, is rejected.
CommandClassificationWitness ==
    /\ last.op = "command"
    /\ last.input = S_MOTD \o SP \o ChanC
    /\ CommandFromStr(last.input) = Ok(Cmd("UNIMPLEMENTED", <<S_MOTD \o SP \o ChanC>>))
    /\ CommandFromStr(UserHead(UserA)) = InvalidInput

\* C31: shutdown liveness.  Once the shutdown is signalled, every session
\* ends and run() returns.
ShutdownLiveness ==
    ShutdownSignalled ~>
        (hub_state = "Stopped" /\ \A s \in Sessions : ~Alive(cc[s]))

\* C32: raw frames.  The echo a session writes when it reads a JOIN line,
\* and every frame it forwards from the broadcast channel, ends with CR LF,
\* however the line that caused it was terminated.
RawFraming ==
    (\/ last.op = "recv"
     \/ last.op = "line" /\ ParsedVerb(last.input) = "JOIN") =>
        \A i \in 1..Len(last.frames) : EndsWithCRLF(last.frames[i])

\* s can still read what the channel holds for it.
Following(conns, s) == Alive(conns[s]) /\ ~Lagged(conns[s].client_rx)

\* q is the end of p.
IsSuffix(q, p) ==
    Len(q) <= Len(p) /\ SubSeq(p, Len(p) - Len(q) + 1, Len(p)) = q

\* C33: consistent global order.  The hub publishes the message at the head
\* of its inbound queue, and the envelope goes behind everything any session
\* has still to read; a session takes the oldest envelope it has not read and
\* leaves what the other sessions have to read as it is; so of two sessions,
\* what one has still to read is the end of what the other has still to
\* read, and both are delivered their common envelopes in the order the hub
\* dequeued them.
GlobalOrder ==
    /\ [](\A s \in Sessions : \A t \in Sessions :
            (Following(cc, s) /\ Following(cc, t)) =>
                \/ IsSuffix(Unread(s), Unread(t))
                \/ IsSuffix(Unread(t), Unread(s)))
    /\ [][/\ (last'.op = "route" /\ last'.result = "Ok" /\ IsSome(last'.input)) =>
                /\ Unwrap(last'.input).item = Head(server_q)
                /\ \A s \in Sessions :
                      (Following(cc, s) /\ Following(cc', s)) =>
                          UnreadOf(client_tx', cc'[s].client_rx) =
                              Append(Unread(s), Unwrap(last'.input))
          /\ (last'.actor # 0 /\ last'.op # "send") =>
                \A s \in Sessions \ {last'.actor} :
                    Following(cc, s) =>
                        /\ Following(cc', s)
                        /\ UnreadOf(client_tx', cc'[s].client_rx) = Unread(s)
          /\ (last'.op = "recv" /\ last'.result # "Lagged") =>
                /\ last'.input = Unread(last'.actor)[1]
                /\ Following(cc', last'.actor) =>
                      UnreadOf(client_tx', cc'[last'.actor].client_rx) =
                          Tail(Unread(last'.actor))
         ]_vars

\* A session takes the second of two envelopes while the other session,
\* which has taken neither, has both still to read, that one last.
GlobalOrderWitness ==
    /\ Dequeued
    /\ cc[last.actor].client_rx = 0
    /\ \E t \in Sessions \ {last.actor} :
          /\ Following(cc, t)
          /\ cc[t].client_rx = 2
          /\ Unread(t)[2] = last.input
          /\ Unread(t)[1].item.seq < last.input.item.seq

\* The client lines that ask to join channel c.
JoinLinesFor(c) == {JoinLine(c), JoinKeyLine(c, KeyK)}

\* The envelopes session s has still to read that carry a PRIVMSG of
\* another session to channel c.
PublishedFor(s, c) ==
    {i \in 1..cc[s].client_rx :
        /\ Unread(s)[i].kind = "PrivMessage"
        /\ Unread(s)[i].item.origin # s
        /\ \E j \in 1..Len(Unread(s)[i].channels) : Unread(s)[i].channels[j] = c}

\* C34: delivery is decided when the envelope is dequeued.  A session that
\* applies its client JOIN for channel c while a PRIVMSG of another session
\* to c is published and not yet dequeued is from then on a session the
\* PRIVMSG is delivered to; and a session never writes a PRIVMSG whose
\* targets have nothing in common with its channels list at that moment.
DequeueTimeDelivery ==
    /\ [](DequeuedKind("PrivMessage") =>
            (last.frames # <<>> =>
                Intersects(cc[last.actor].info.channels, last.input.channels)))
    /\ [][\A c \in ChannelNames :
            (/\ last'.op = "line"
             /\ last'.input \in JoinLinesFor(c)
             /\ Following(cc, last'.actor)) =>
                \A i \in PublishedFor(last'.actor, c) :
                    IsSome(Filter(Unread(last'.actor)[i], cc'[last'.actor].info))
         ]_vars

\* A message the hub's send_broadcast has an arm for, as a session enqueues
\* it.
Routable(item) ==
    /\ item.message.command.verb \in {"PRIVMSG", "JOIN"}
    /\ item.message.side = "Server"
    /\ IsSome(item.message.source)

\* C35: inbound queue content.  Every message in the hub's inbound queue,
\* or held by a suspended send, is a PRIVMSG or a JOIN with side Server and
\* a source; a line that parses to any other command, and an envelope taken
\* off the broadcast channel, leave the queue as it is and suspend no send;
\* no line applied with side Server asks for a broadcast; and for every
\* message the hub dequeues send_broadcast builds an envelope.
InboundContent ==
    /\ \A line \in SoloLines :
          LET r == MessageFromStr(line)
          IN IsOk(r) =>
               apply([r.val EXCEPT !.side = "Server"], ClientInfoDefault).code
                   # "Broadcast"
    /\ [](/\ \A i \in 1..Len(server_q) : Routable(server_q[i])
          /\ \A s \in Sessions :
                cc[s].pc = "Send" => Routable(Unwrap(cc[s].pending)))
    /\ [][/\ last'.op = "route" =>
                /\ IsSome(last'.input)
                /\ Unwrap(last'.input).item = Head(server_q)
          /\ (\/ last'.op = "recv"
              \/ /\ last'.op = "line"
                 /\ ParsedVerb(last'.input) \notin {"PRIVMSG", "JOIN"}) =>
                /\ server_q' = server_q
                /\ cc'[last'.actor].pc # "Send"
         ]_vars

\* With a JOIN waiting in the hub's inbound queue, the session has read a
\* line that parses to another command and left the queue as it was.
InboundContentWitness ==
    /\ last.op = "line"
    /\ ParsedVerb(last.input) \in {"NICK", "USER", "PING", "UNKNOWN", "UNIMPLEMENTED"}
    /\ last.result = "Fine"
    /\ Len(server_q) = 1
    /\ server_q[1].message.command.verb = "JOIN"
    /\ server_q[1].origin = last.actor

\* The channels a JOIN line lists, in the order of the line.
ListedChannels(line) == MessageFromStr(line).val.command.args[1]

\* C36: channels list.  While a session lives its channels list changes
\* only in the step in which it reads a JOIN line, which appends the
\* channels the line lists, in order and with duplicates kept; a step that
\* takes an envelope off the broadcast channel (a JOIN or PRIVMSG with side
\* Server), a line of any other command, and every step of the hub or of
\* another session leave it as it is; so the list never shrinks.
ChannelsList ==
    [][\A s \in Sessions :
          Alive(cc'[s]) =>
              LET before == cc[s].info.channels
                  after == cc'[s].info.channels
                  joining == /\ last'.actor = s
                             /\ last'.op = "line"
                             /\ ParsedVerb(last'.input) = "JOIN"
              IN /\ IsPrefix(before, after)
                 /\ joining => after = before \o ListedChannels(last'.input)
                 /\ ~joining => after = before
      ]_vars

\* A session that has joined two channels reads a JOIN line for the first
\* of them again: the list holds that channel twice.
ChannelsListWitness ==
    /\ last.op = "line"
    /\ last.input = JoinKeyLine(ChanC, KeyK)
    /\ Alive(cc[last.actor])
    /\ cc[last.actor].info.channels = <<ChanC, ChanD, ChanC>>

\* The serialization did not reach a todo!() arm.
Serialized(str) == \A i \in 1..Len(str) : str[i] # TodoPanic[1]

\* C37: no todo!() in serialization.  A Command the parser returns is of a
\* verb whose serializer arm is written, a MOTD it returns has no target,
\* and its serialization, alone and inside the Message a session writes to
\* its socket (with or without a source), reaches no todo!() arm.
NoTodoSerializing ==
    (last.op = "command" /\ last.result = "Ok") =>
        LET c == CommandFromStr(last.input).val
        IN /\ c.verb \in {"DIE", "JOIN", "MOTD", "NICK", "PING", "PONG", "PRIVMSG",
                          "QUIT", "REHASH", "USER", "UNKNOWN", "UNIMPLEMENTED"}
           /\ c.verb = "MOTD" => c.args = <<None>>
           /\ Serialized(last.frames[1])
           /\ Serialized(MessageToString(Msg(None, None, c, "Client")))
           /\ \A u \in {<<>>, UserA} :
                 Serialized(MessageToString(Msg(None, Some(u), c, "Server")))

\* MOTD with a target, which the parser returns as UNIMPLEMENTED, is
\* serialized as the line it came from.
NoTodoSerializingWitness ==
    /\ last.op = "command"
    /\ last.input = S_MOTD \o SP \o ChanC
    /\ last.result = "Ok"
    /\ last.frames = <<S_MOTD \o SP \o ChanC>>

\* C38: the inbound queue stays open.  While the hub is in its select the
\* inbound queue has a sender, so the receive never finds it closed and the
\* 'server_tx broke' branch is not taken, whatever sessions have connected
\* and ended.
InboundOpen ==
    hub_state = "Running" => (server_tx_senders >= 1 /\ ~server_rx_closed)

\* Every session that connected has ended, the inbound queue is empty and
\* the hub is still in its select.
InboundOpenWitness ==
    /\ hub_state = "Running"
    /\ nsessions = MaxSessions
    /\ \A s \in Sessions : ~Alive(cc[s])
    /\ server_q = <<>>
    /\ last.op = "eof"

\* C39: no replay.  A session starts with nothing to read, whatever the
\* broadcast channel retains for the others when it is accepted; what a
\* session has to read grows only by the envelope the hub publishes while the
\* session lives, one at a time and at the end; and a session takes only
\* what it has to read.  So no session is delivered an envelope published
\* before its accept.
NoReplay ==
    [][/\ (last'.op = "accept" /\ last'.result = "Ok") =>
             /\ cc'[nsessions'].client_rx = 0
             /\ client_tx' = client_tx
       /\ \A s \in Sessions :
             cc'[s].client_rx > cc[s].client_rx =>
                 /\ last'.op = "route"
                 /\ Alive(cc[s])
                 /\ cc'[s].client_rx = cc[s].client_rx + 1
                 /\ ~Lagged(cc'[s].client_rx) =>
                       client_tx'[Len(client_tx')] = Unwrap(last'.input)
       /\ (last'.op = "recv" /\ last'.result # "Lagged") =>
             /\ cc[last'.actor].client_rx > 0
             /\ last'.input = Unread(last'.actor)[1]
      ]_vars

\* A session is accepted while the channel retains a PRIVMSG envelope for
\* another session: the new session has nothing to read.
NoReplayWitness ==
    /\ last.op = "accept"
    /\ Len(client_tx) >= 1
    /\ client_tx[1].kind = "PrivMessage"
    /\ Alive(cc[nsessions])
    /\ cc[nsessions].client_rx = 0

\* C40: interrupt of the standalone server.  Once the interrupt task is
\* through its loop over killers, every handler that was in the list and is
\* still connected has been notified; a handler that is notified writes the
\* QUIT frame and then the ERROR frame and returns; and the interrupt task
\* gets to its exit, whatever handlers returned before the interrupt.
InterruptFarewell ==
    /\ ctrl_c.pc \in {"Sleeping", "Panicked"} =>
          \A i \in 1..ctrl_c.total :
              handlers[killers[i]].pc = "Select" => handlers[killers[i]].changed
    /\ \A c \in Clients :
          handlers[c].wrote \in {<<>>, MainFarewell(handlers[c].username)}
    /\ ctrl_c.pc # "Panicked"

=============================================================================
